---- MODULE Spec2Model ----
(***************************************************************************)
(* Model of tbnobed/mover: the center's file registry (server_python/      *)
(* main.py over server_python/storage.py), its permanent ledger, its audit *)
(* trail and the cleanup / retransfer task store.                          *)
(*                                                                         *)
(* The center is an asyncio service.  A handler gives up control at every  *)
(* `await storage.x(...)`, and storage opens no transaction (each          *)
(* statement autocommits), so a request is a sequence of steps that other  *)
(* requests interleave with.  A request in flight is an element of the bag *)
(* `reqs` and carries the position (`pc`) of its next statement.           *)
(***************************************************************************)
EXTENDS Integers, Sequences, FiniteSets, Bags, TLC

VARIABLES
    files,          \* table files: id -> row (DOMAIN files = ids that exist)
    audit_logs,     \* table audit_logs: file_id -> rows in insertion order
    transfer_jobs,  \* table transfer_jobs: ids of files that own a job row
    file_history,   \* table file_history: sha256_hash -> the ledger rows with that hash
    users,          \* table users: sequence of roles in creation order, id = index
    sites,          \* table sites: set of site names
    nextId,         \* number of file ids handed out so far (uuid4 never repeats)
    reqs,           \* requests in flight: a bag of requests (coroutines have no name)
    last,           \* the response the last step sent, NoResponse if it sent none
    cleanup_tasks,  \* table cleanup_tasks: id -> row
    retransfer_tasks, \* table retransfer_tasks: id -> row
    now,            \* the wall clock, in seconds (datetime.now(), NOW())
    active_uploads, \* main.py active_uploads: the upload ids registered
    disk,           \* the watch directory of the site: path -> [size, mtime]
    seen_files,     \* FileDetector.seen_files
    pending_queue,  \* SiteDaemon.pending_queue
    writing_files,  \* SiteDaemon.writing_files: path -> [last_size, last_mtime, stable_since]
    stable_queue,   \* SiteDaemon.stable_queue
    uploading_file, \* SiteDaemon.uploading_file
    in_upload,      \* the calls of FileDetector.upload_file in progress: path -> phase
    upload_files,   \* SiteDaemon.upload_files (False: started with --metadata-only)
    run_pc,         \* where SiteDaemon.run is: "scan" (scan_existing_files) or "gather"
    scan_listing,   \* the entries of the watch directory when scan_existing_files began
    scan_visited,   \* the entries scan_existing_files has visited
    streams,        \* upload-stream requests past their checks: upload id -> the
                    \* handler's local variables and its entry of active_uploads
    storage_dir     \* the files under STORAGE_PATH: <<directory, name>> -> content

vars == <<files, audit_logs, transfer_jobs, file_history, users, sites, nextId,
          reqs, last, cleanup_tasks, retransfer_tasks, now, active_uploads,
          disk, seen_files, pending_queue, writing_files, stable_queue,
          uploading_file, in_upload, upload_files, run_pc, scan_listing,
          scan_visited, streams, storage_dir>>

registryVars == <<files, audit_logs, transfer_jobs, file_history, users, sites,
                  nextId, reqs, last>>
taskVars == <<cleanup_tasks, retransfer_tasks>>
runVars == <<upload_files, run_pc, scan_listing, scan_visited>>
streamVars == <<streams, storage_dir>>
daemonVars == <<disk, seen_files, pending_queue, writing_files, stable_queue,
                uploading_file, in_upload, runVars>>

(***************************************************************************)
(* Bounds of the model.                                                    *)
(***************************************************************************)
MaxFiles == 2
MaxTracked == 1
MaxReq == 2
MaxUsers == 1
MaxAssignees == 2
MaxAudit == 6
MaxTasks == 1
MaxSize == 2
MaxTime == 90

FileIds == 1..MaxFiles
TrackedIds == 1..MaxTracked
UserIds == 1..MaxUsers
TaskIds == 1..MaxTasks
Sizes == 1..MaxSize

Hashes == {"h1", "h2"}
Paths == {"/exports/a.mov", "/exports/b.mov"}
SiteNames == {"tustin", "Tustin"}
None == "none"

(***************************************************************************)
(* database.py: the enums of the schema.                                   *)
(***************************************************************************)
file_state == {"detected", "validated", "queued", "transferring", "transferred",
               "colorist_assigned", "in_progress", "delivered_to_mam",
               "archived", "rejected"}

user_role == {"admin", "colorist", "engineer", "readonly"}

\* Column defaults the INSERT of storage.create_file relies on.  transfer_progress
\* is in database.py; `locked` is a column the schema of database.py does not
\* create, its default is the one the data model states (locked = false).
transfer_progress_default == 0
locked_default == FALSE

\* daemon.py 29-33: the periods of the site daemon, in seconds.
HEARTBEAT_INTERVAL == 30
FILE_STABILITY_SECONDS == 60

\* LOWER() of SQL and str.lower() of Python on the site names of the model.
Lower(s) == IF s = "Tustin" THEN "tustin" ELSE s

(***************************************************************************)
(* Responses.                                                              *)
(***************************************************************************)
\* The handler that answered and its HTTP status; the detail text is not kept.
NoResponse == [op |-> "none", fid |-> 0, status |-> 0]
Response(handler, f, code, what) == [op |-> handler, fid |-> f, status |-> code]

\* A request in flight: the handler, the file id, the next statement, and what the
\* handler holds in local variables (the state it read, the owner, the reason).
Request(op, f, pc) == [op |-> op, fid |-> f, pc |-> pc, prev |-> "none",
                       user_id |-> 0, reason |-> "none"]
Put(req) == reqs (+) SetToBag({req})
Take(req) == reqs (-) SetToBag({req})
Move(req, to) == (reqs (-) SetToBag({req})) (+) SetToBag({to})
Running == BagToSet(reqs)
CanAccept == BagCardinality(reqs) < MaxReq

Init ==
    /\ files = <<>>
    /\ audit_logs = [f \in FileIds |-> <<>>]
    /\ transfer_jobs = {}
    /\ file_history = <<>>
    /\ users = <<>>
    /\ sites = {}
    /\ nextId = 0
    /\ reqs = EmptyBag
    /\ last = NoResponse
    /\ cleanup_tasks = <<>>
    /\ retransfer_tasks = <<>>
    /\ now = 0
    /\ active_uploads = {}
    /\ disk = <<>>
    /\ seen_files = {}
    /\ pending_queue = <<>>
    /\ writing_files = <<>>
    /\ stable_queue = <<>>
    /\ uploading_file = None
    /\ in_upload = <<>>
    /\ upload_files = TRUE
    /\ run_pc = "gather"
    /\ scan_listing = {}
    /\ scan_visited = {}
    /\ streams = <<>>
    /\ storage_dir = <<>>

(***************************************************************************)
(* Table helpers.                                                          *)
(***************************************************************************)
Exists(f) == f \in DOMAIN files

\* DELETE FROM files WHERE id = f
WithoutFile(f) == [x \in DOMAIN files \ {f} |-> files[x]]

\* Requests in flight that will still insert an audit row for file f.
InFlight(f) ==
    LET writers == {q \in Running : q.op # "delete" /\ q.fid = f}
    IN BagCardinality([q \in writers |-> reqs[q]])

\* The model stops taking requests that would grow the audit trail of a file
\* beyond MaxAudit rows; a request already begun always runs to its end.
AuditRoom(f) == Len(audit_logs[f]) + InFlight(f) < MaxAudit

(***************************************************************************)
(* main.py 487-672: the nine transition handlers.  Every handler is        *)
(*     file = await storage.get_file(id)        -- 404 / 400, or go on     *)
(*     updated = await storage.update_file(id, {...})                      *)
(*     await storage.create_audit_log({...})                               *)
(* and the three awaits are three steps.                                   *)
(***************************************************************************)
Verbs == {"validate", "queue", "start-transfer", "complete-transfer", "assign",
          "start", "deliver", "archive", "reject"}

\* Precondition with a slip in one row: queue also taken from detected.
Precondition_queue_from_detected(verb) ==
    CASE verb = "validate"          -> {"detected"}
      [] verb = "queue"             -> {"validated", "detected"}
      [] verb = "start-transfer"    -> {"queued"}
      [] verb = "complete-transfer" -> {"transferring"}
      [] verb = "assign"            -> {"validated", "transferred"}
      [] verb = "start"             -> {"colorist_assigned"}
      [] verb = "deliver"           -> {"in_progress"}
      [] verb = "archive"           -> {"delivered_to_mam"}
      [] verb = "reject"            -> file_state

\* The states in which the handler of `verb` goes on to update the file.
Precondition(verb) ==
    CASE verb = "validate"          -> {"detected"}
      [] verb = "queue"             -> {"validated"}
      [] verb = "start-transfer"    -> {"queued"}
      [] verb = "complete-transfer" -> {"transferring"}
      [] verb = "assign"            -> {"validated", "transferred"}
      [] verb = "start"             -> {"colorist_assigned"}
      [] verb = "deliver"           -> {"in_progress"}
      [] verb = "archive"           -> {"delivered_to_mam"}
      [] verb = "reject"            -> file_state

\* Updates with a slip in one row: reject_file also passes "locked": False.
Updates_reject_unlocks(req, row) ==
    CASE req.op = "validate"          -> [row EXCEPT !.state = "validated", !.locked = TRUE]
      [] req.op = "queue"             -> [row EXCEPT !.state = "queued"]
      [] req.op = "start-transfer"    -> [row EXCEPT !.state = "transferring"]
      [] req.op = "complete-transfer" -> [row EXCEPT !.state = "transferred",
                                                     !.transfer_progress = 100]
      [] req.op = "assign"            -> [row EXCEPT !.state = "colorist_assigned",
                                                     !.assigned_to = req.user_id]
      [] req.op = "start"             -> [row EXCEPT !.state = "in_progress"]
      [] req.op = "deliver"           -> [row EXCEPT !.state = "delivered_to_mam"]
      [] req.op = "archive"           -> [row EXCEPT !.state = "archived"]
      [] req.op = "reject"            -> [row EXCEPT !.state = "rejected", !.locked = FALSE,
                                                     !.error_message = req.reason]

\* The dictionary the handler of req.op passes to storage.update_file, applied to
\* a row (the timestamps are left out).
Updates(req, row) ==
    CASE req.op = "validate"          -> [row EXCEPT !.state = "validated", !.locked = TRUE]
      [] req.op = "queue"             -> [row EXCEPT !.state = "queued"]
      [] req.op = "start-transfer"    -> [row EXCEPT !.state = "transferring"]
      [] req.op = "complete-transfer" -> [row EXCEPT !.state = "transferred",
                                                     !.transfer_progress = 100]
      [] req.op = "assign"            -> [row EXCEPT !.state = "colorist_assigned",
                                                     !.assigned_to = req.user_id]
      [] req.op = "start"             -> [row EXCEPT !.state = "in_progress"]
      [] req.op = "deliver"           -> [row EXCEPT !.state = "delivered_to_mam"]
      [] req.op = "archive"           -> [row EXCEPT !.state = "archived"]
      [] req.op = "reject"            -> [row EXCEPT !.state = "rejected",
                                                     !.error_message = req.reason]

\* The audit row the handler of req.op writes: previous_state is a literal of the
\* handler, except in reject_file, which writes the state it read.
AuditRow(req) ==
    CASE req.op = "create"            -> [previous_state |-> None, new_state |-> "detected",
                                          performed_by |-> 0]
      [] req.op = "validate"          -> [previous_state |-> "detected",
                                          new_state |-> "validated", performed_by |-> 0]
      [] req.op = "queue"             -> [previous_state |-> "validated",
                                          new_state |-> "queued", performed_by |-> 0]
      [] req.op = "start-transfer"    -> [previous_state |-> "queued",
                                          new_state |-> "transferring", performed_by |-> 0]
      [] req.op = "complete-transfer" -> [previous_state |-> "transferring",
                                          new_state |-> "transferred", performed_by |-> 0]
      [] req.op = "assign"            -> [previous_state |-> "transferred",
                                          new_state |-> "colorist_assigned",
                                          performed_by |-> req.user_id]
      [] req.op = "start"             -> [previous_state |-> "colorist_assigned",
                                          new_state |-> "in_progress", performed_by |-> 0]
      [] req.op = "deliver"           -> [previous_state |-> "in_progress",
                                          new_state |-> "delivered_to_mam", performed_by |-> 0]
      [] req.op = "archive"           -> [previous_state |-> "delivered_to_mam",
                                          new_state |-> "archived", performed_by |-> 0]
      [] req.op = "reject"            -> [previous_state |-> req.prev,
                                          new_state |-> "rejected", performed_by |-> 0]

\* assign_file 573-584: the explicit user_id of the request, else the first
\* colorist of storage.get_users() (ORDER BY created_at DESC), else the first user
\* whose role is colorist, engineer or admin; 0 when there is none.
Newest(S) == IF S = {} THEN 0 ELSE CHOOSE u \in S : \A v \in S : v <= u
pick_user(explicit) ==
    IF explicit # 0 THEN explicit
    ELSE LET colorists == {u \in DOMAIN users : users[u] = "colorist"}
             eligible == {u \in DOMAIN users : users[u] \in {"colorist", "engineer", "admin"}}
         IN IF colorists # {} THEN Newest(colorists) ELSE Newest(eligible)

\* The first await of a transition handler: read the file, answer 404 or 400, or
\* go on with the update.  explicit is AssignRequest.user_id (0: absent), reason
\* is RejectRequest.reason.
BeginTransition(verb, f, explicit, reason) ==
    /\ CanAccept
    /\ UNCHANGED <<files, audit_logs, transfer_jobs, file_history, users, sites, nextId, taskVars, now, active_uploads, streamVars, daemonVars>>
    /\ IF ~Exists(f)
         THEN /\ last' = Response(verb, f, 404, "File not found")
              /\ UNCHANGED reqs
       ELSE IF files[f].state \notin Precondition(verb)
         THEN /\ last' = Response(verb, f, 400, "wrong state")
              /\ UNCHANGED reqs
       ELSE IF verb = "assign" /\ pick_user(explicit) = 0
         THEN /\ last' = Response(verb, f, 400, "No user available for assignment")
              /\ UNCHANGED reqs
       ELSE /\ AuditRoom(f)
            /\ reqs' = Put([op |-> verb, fid |-> f, pc |-> "update",
                             prev |-> files[f].state,
                             user_id |-> IF verb = "assign" THEN pick_user(explicit) ELSE 0,
                             reason |-> reason])
            /\ last' = NoResponse

validate_file(f) == BeginTransition("validate", f, 0, None)
queue_file(f) == BeginTransition("queue", f, 0, None)
start_transfer(f) == BeginTransition("start-transfer", f, 0, None)
complete_transfer(f) == BeginTransition("complete-transfer", f, 0, None)
assign_file(f, explicit) == BeginTransition("assign", f, explicit, None)
start_work(f) == BeginTransition("start", f, 0, None)
deliver_file(f) == BeginTransition("deliver", f, 0, None)
archive_file(f) == BeginTransition("archive", f, 0, None)
reject_file(f, reason) == BeginTransition("reject", f, 0, reason)

\* storage.update_file 154-166: UPDATE files SET ... WHERE id = $n, without any
\* condition on the row's state; no row is touched when the file is gone.  The
\* foreign key files.assigned_to -> users(id) refuses an owner that is no user.
update_file(req) ==
    /\ req \in Running
    /\ req.op \in Verbs
    /\ req.pc = "update"
    /\ UNCHANGED <<audit_logs, transfer_jobs, file_history, users, sites, nextId, taskVars, now, active_uploads, streamVars, daemonVars>>
    /\ IF Exists(req.fid) /\ req.op = "assign" /\ req.user_id \notin DOMAIN users
         THEN /\ last' = Response(req.op, req.fid, 500, "foreign key: assigned_to")
              /\ reqs' = Take(req)
              /\ UNCHANGED files
         ELSE /\ files' = IF Exists(req.fid)
                            THEN [files EXCEPT ![req.fid] = Updates(req, files[req.fid])]
                            ELSE files
              /\ reqs' = Move(req, [req EXCEPT !.pc = "audit"])
              /\ last' = NoResponse

\* storage.create_audit_log 401-411, and the handler's return.  The foreign key
\* audit_logs.file_id -> files(id) refuses a row for a file that is gone.
create_audit_log(req) ==
    /\ req \in Running
    /\ req.op \in Verbs \cup {"create"}
    /\ req.pc = "audit"
    /\ reqs' = Take(req)
    /\ UNCHANGED <<files, transfer_jobs, file_history, users, sites, nextId, taskVars, now, active_uploads, streamVars, daemonVars>>
    /\ IF Exists(req.fid)
         THEN /\ audit_logs' = [audit_logs EXCEPT ![req.fid] = Append(@, AuditRow(req))]
              /\ last' = Response(req.op, req.fid, 200, "ok")
         ELSE /\ UNCHANGED audit_logs
              /\ last' = Response(req.op, req.fid, 500, "foreign key: audit_logs.file_id")


(***************************************************************************)
(* main.py 239-254 and storage.create_file 143-152: POST /api/files.       *)
(* The handler checks nothing (no site, no source path, no hash) and does  *)
(* not write the ledger: INSERT the row, then write the audit row.         *)
(***************************************************************************)
NewFile(site, path, size, hash) ==
    [state |-> "detected", locked |-> locked_default, sha256_hash |-> hash,
     source_site |-> site, source_path |-> path, file_size |-> size,
     assigned_to |-> 0, transfer_progress |-> transfer_progress_default,
     error_message |-> None]

create_file(site, path, size, hash) ==
    /\ CanAccept
    /\ nextId' = nextId + 1
    /\ files' = files @@ ((nextId + 1) :> NewFile(site, path, size, hash))
    /\ reqs' = Put(Request("create", nextId + 1, "audit"))
    /\ last' = NoResponse
    /\ UNCHANGED <<audit_logs, transfer_jobs, file_history, users, sites, taskVars, now, active_uploads, streamVars, daemonVars>>

(***************************************************************************)
(* main.py 674-681 and storage.delete_file 168-187: DELETE /api/files/id.  *)
(* SELECT the row and refuse a missing or a locked one (both answered 400),*)
(* then three DELETE statements, each its own await.                       *)
(***************************************************************************)
delete_file(f) ==
    /\ CanAccept
    /\ UNCHANGED <<files, audit_logs, transfer_jobs, file_history, users, sites, nextId, taskVars, now, active_uploads, streamVars, daemonVars>>
    /\ IF ~Exists(f)
         THEN /\ last' = Response("delete", f, 400, "File not found")
              /\ UNCHANGED reqs
       ELSE IF files[f].locked
         THEN /\ last' = Response("delete", f, 400, "Cannot delete: file is locked")
              /\ UNCHANGED reqs
       ELSE /\ reqs' = Put(Request("delete", f, "del_audit"))
            /\ last' = NoResponse

\* DELETE FROM audit_logs WHERE file_id = $1
delete_audit_rows(req) ==
    /\ req \in Running
    /\ req.op = "delete" /\ req.pc = "del_audit"
    /\ audit_logs' = [audit_logs EXCEPT ![req.fid] = <<>>]
    /\ reqs' = Move(req, [req EXCEPT !.pc = "del_jobs"])
    /\ last' = NoResponse
    /\ UNCHANGED <<files, transfer_jobs, file_history, users, sites, nextId, taskVars, now, active_uploads, streamVars, daemonVars>>

\* DELETE FROM transfer_jobs WHERE file_id = $1
delete_job_rows(req) ==
    /\ req \in Running
    /\ req.op = "delete" /\ req.pc = "del_jobs"
    /\ transfer_jobs' = transfer_jobs \ {req.fid}
    /\ reqs' = Move(req, [req EXCEPT !.pc = "del_file"])
    /\ last' = NoResponse
    /\ UNCHANGED <<files, audit_logs, file_history, users, sites, nextId, taskVars, now, active_uploads, streamVars, daemonVars>>

\* DELETE FROM files WHERE id = $1, refused by the foreign keys of audit_logs and
\* transfer_jobs when a row written since still names the file.
delete_file_row(req) ==
    LET f == req.fid IN
    /\ req \in Running
    /\ req.op = "delete" /\ req.pc = "del_file"
    /\ reqs' = Take(req)
    /\ UNCHANGED <<audit_logs, transfer_jobs, file_history, users, sites, nextId, taskVars, now, active_uploads, streamVars, daemonVars>>
    /\ IF audit_logs[f] # <<>> \/ f \in transfer_jobs
         THEN /\ last' = Response("delete", f, 500, "foreign key: files.id still referenced")
              /\ UNCHANGED files
         ELSE /\ files' = WithoutFile(f)
              /\ last' = Response("delete", f, 200, "File deleted successfully")

(***************************************************************************)
(* storage.file_exists_in_history 124-141: seen(hash).                     *)
(***************************************************************************)
file_exists_in_history(h) ==
    \/ h \in DOMAIN file_history
    \/ \E f \in DOMAIN files : files[f].sha256_hash = h

\* storage.get_sites and the handlers' site check: the lower-cased names.
site_names == {Lower(s) : s \in sites}

(***************************************************************************)
(* main.py 198-230: GET /api/files/check.  "" is an absent parameter.      *)
(* With site and source_path given and the hash not seen, the handler      *)
(* calls storage.get_file_by_source, a name storage.py does not define     *)
(* (it defines get_file_by_site_and_path): AttributeError, answered 500.   *)
(***************************************************************************)
CheckOutcome(hash, filename, site, source_path) ==
    IF hash = "" /\ filename = "" /\ source_path = "" THEN "bad request"
    ELSE IF hash # "" /\ file_exists_in_history(hash) THEN "exists"
    ELSE IF site # "" /\ source_path # "" THEN "AttributeError"
    ELSE "not exists"

CheckResponse(hash, filename, site, source_path) ==
    LET outcome == CheckOutcome(hash, filename, site, source_path)
    IN IF outcome = "bad request"
         THEN Response("check", 0, 400, "Must provide hash, filename, or source_path")
       ELSE IF outcome = "AttributeError"
         THEN Response("check", 0, 500, "AttributeError: get_file_by_source")
       ELSE Response("check", 0, 200, outcome)

check_file_exists(hash, filename, site, source_path) ==
    /\ last' = CheckResponse(hash, filename, site, source_path)
    /\ UNCHANGED <<files, audit_logs, transfer_jobs, file_history, users, sites,
                   nextId, reqs, taskVars, now, active_uploads, streamVars, daemonVars>>

\* main.py 333-364: what POST /api/files/upload-stream answers, from its headers.
UploadStreamResponse(site, path) ==
    IF site = "" \/ path = ""
      THEN Response("upload-stream", 0, 400, "Missing X-Source-Site or X-Source-Path headers")
    ELSE IF Lower(site) \notin site_names
      THEN Response("upload-stream", 0, 400, "Unknown site")
    ELSE Response("upload-stream", 0, 500, "AttributeError: get_file_by_source")

\* upload_file_stream with the session registered before the duplicate check, out
\* of reach of the try/finally that removes it.
upload_file_stream_registers_early(site, path, size, hash, body_size, body_hash) ==
    /\ last' = UploadStreamResponse(site, path)
    /\ active_uploads' = IF site = "" \/ path = "" \/ Lower(site) \notin site_names
                           THEN active_uploads
                           ELSE active_uploads \cup {Cardinality(active_uploads) + 1}
    /\ UNCHANGED <<files, audit_logs, transfer_jobs, file_history, users, sites,
                   nextId, reqs, taskVars, now, streamVars, daemonVars>>

(***************************************************************************)
(* main.py 333-477: POST /api/files/upload-stream.  size and hash are the  *)
(* X-File-Size and X-File-Hash headers, body_size and body_hash what the   *)
(* client streams.  After the header and the site checks the handler calls *)
(* storage.get_file_by_source (line 362), which does not exist: the        *)
(* request ends there with AttributeError, before the UploadSession is     *)
(* registered and before a byte of the body is read.                       *)
(***************************************************************************)
upload_file_stream(site, path, size, hash, body_size, body_hash) ==
    /\ last' = UploadStreamResponse(site, path)
    /\ UNCHANGED <<files, audit_logs, transfer_jobs, file_history, users, sites,
                   nextId, reqs, taskVars, now, active_uploads, streamVars, daemonVars>>

\* main.py 256-326: POST /api/files/upload (buffered).  Same call at line 272.
upload_file(site, path, body_size, body_hash) ==
    /\ last' = IF Lower(site) \notin site_names
                 THEN Response("upload", 0, 400, "Unknown site")
               ELSE Response("upload", 0, 500, "AttributeError: get_file_by_source")
    /\ UNCHANGED <<files, audit_logs, transfer_jobs, file_history, users, sites,
                   nextId, reqs, taskVars, now, active_uploads, streamVars, daemonVars>>

\* site_heartbeat with auto_create left at its default (True) for every caller.
site_heartbeat_always_creates(name, is_daemon) ==
    /\ IF \E s \in sites : Lower(s) = Lower(name)
         THEN /\ UNCHANGED sites
              /\ last' = Response("heartbeat", 0, 200, "ok")
         ELSE /\ sites' = sites \cup {name}
              /\ last' = Response("heartbeat", 0, 200, "ok")
    /\ UNCHANGED <<files, audit_logs, transfer_jobs, file_history, users, nextId, reqs,
                   taskVars, now, active_uploads, streamVars, daemonVars>>

(***************************************************************************)
(* main.py 766-773 and storage.update_site_heartbeat 361-387.              *)
(***************************************************************************)
site_heartbeat(name, is_daemon) ==
    /\ IF \E s \in sites : Lower(s) = Lower(name)
         THEN /\ UNCHANGED sites
              /\ last' = Response("heartbeat", 0, 200, "ok")
       ELSE IF is_daemon
         THEN /\ sites' = sites \cup {name}
              /\ last' = Response("heartbeat", 0, 200, "ok")
       ELSE /\ UNCHANGED sites
            /\ last' = Response("heartbeat", 0, 404, "Site not found")
    /\ UNCHANGED <<files, audit_logs, transfer_jobs, file_history, users, nextId, reqs, taskVars, now, active_uploads, streamVars, daemonVars>>

(***************************************************************************)
(* main.py 735-741 and storage.create_site 324-333: POST /api/sites.  The  *)
(* handler lower-cases the name; the INSERT meets the constraint           *)
(* name TEXT NOT NULL UNIQUE of database.py, which compares the names as   *)
(* they are stored (case-sensitive).                                       *)
(***************************************************************************)
create_site(name) ==
    /\ IF Lower(name) \in sites
         THEN /\ UNCHANGED sites
              /\ last' = Response("create_site", 0, 500, "UniqueViolationError: sites.name")
         ELSE /\ sites' = sites \cup {Lower(name)}
              /\ last' = Response("create_site", 0, 200, "ok")
    /\ UNCHANGED <<files, audit_logs, transfer_jobs, file_history, users, nextId, reqs,
                   taskVars, now, active_uploads, streamVars, daemonVars>>

\* main.py 743-757 and storage.update_site 335-347: PUT /api/sites/id with a name.
\* The row is the one whose name is `site` (rows are not known by id here).
update_site(site, name) ==
    /\ IF site \notin sites
         THEN /\ UNCHANGED sites
              /\ last' = Response("update_site", 0, 404, "Site not found")
       ELSE IF Lower(name) \in sites \ {site}
         THEN /\ UNCHANGED sites
              /\ last' = Response("update_site", 0, 500, "UniqueViolationError: sites.name")
       ELSE /\ sites' = (sites \ {site}) \cup {Lower(name)}
            /\ last' = Response("update_site", 0, 200, "ok")
    /\ UNCHANGED <<files, audit_logs, transfer_jobs, file_history, users, nextId, reqs,
                   taskVars, now, active_uploads, streamVars, daemonVars>>

\* main.py 693-702 and storage.create_user 209-222.
create_user(role) ==
    /\ users' = Append(users, role)
    /\ last' = Response("create_user", 0, 200, "ok")
    /\ UNCHANGED <<files, audit_logs, transfer_jobs, file_history, sites, nextId, reqs, taskVars, now, active_uploads, streamVars, daemonVars>>

\* A row of transfer_jobs for an existing file.  No code of server_python inserts
\* one; the table is the one storage.delete_file cascades to.
insert_transfer_job(f) ==
    /\ Exists(f)
    /\ f \notin transfer_jobs
    /\ transfer_jobs' = transfer_jobs \cup {f}
    /\ last' = NoResponse
    /\ UNCHANGED <<files, audit_logs, file_history, users, sites, nextId, reqs, taskVars, now, active_uploads, streamVars, daemonVars>>

\* storage.delete_file_from_history 667-674: the administrative override.
delete_file_from_history(h) ==
    /\ file_history' = [x \in DOMAIN file_history \ {h} |-> file_history[x]]
    /\ last' = NoResponse
    /\ UNCHANGED <<files, audit_logs, transfer_jobs, users, sites, nextId, reqs, taskVars, now, active_uploads, streamVars, daemonVars>>

(***************************************************************************)
(* Spec: the file registry.  Operators and automation send any transition, *)
(* registration or delete request at any time; requests in flight advance  *)
(* in any order.                                                           *)
(***************************************************************************)
Next ==
    \/ \E f \in TrackedIds : validate_file(f)
    \/ \E f \in TrackedIds : queue_file(f)
    \/ \E f \in TrackedIds : start_transfer(f)
    \/ \E f \in TrackedIds : complete_transfer(f)
    \/ \E f \in TrackedIds, u \in {0} \cup UserIds : assign_file(f, u)
    \/ \E f \in TrackedIds : start_work(f)
    \/ \E f \in TrackedIds : deliver_file(f)
    \/ \E f \in TrackedIds : archive_file(f)
    \/ \E f \in TrackedIds, why \in {"corrupt"} : reject_file(f, why)
    \/ \E req \in Running : update_file(req)
    \/ \E req \in Running : create_audit_log(req)
    \/ \E h \in {"h1"} : nextId < MaxTracked /\ create_file("tustin", "/exports/a.mov", 1, h)
    \/ \E f \in TrackedIds : delete_file(f)
    \/ \E req \in Running : delete_audit_rows(req)
    \/ \E req \in Running : delete_job_rows(req)
    \/ \E req \in Running : delete_file_row(req)
    \/ \E role \in {"colorist"} : Len(users) < MaxUsers /\ create_user(role)

Spec == Init /\ [][Next]_vars

(***************************************************************************)
(* SpecAssign: one file and up to MaxAssignees users of any role; the file *)
(* is registered, validated and assigned, with or without an explicit      *)
(* user, by requests that may overlap.                                     *)
(***************************************************************************)
NextAssign ==
    \/ \E h \in {"h1"} : nextId < MaxTracked /\ create_file("tustin", "/exports/a.mov", 1, h)
    \/ \E f \in TrackedIds : validate_file(f)
    \/ \E f \in TrackedIds, u \in 0..MaxAssignees : assign_file(f, u)
    \/ \E req \in Running : update_file(req)
    \/ \E req \in Running : create_audit_log(req)
    \/ \E role \in user_role : Len(users) < MaxAssignees /\ create_user(role)

SpecAssign == Init /\ [][NextAssign]_vars

(***************************************************************************)
(* storage.py 512-665: cleanup and retransfer tasks.  Each function is one *)
(* SQL statement, so each is one step.  No handler of main.py calls them;  *)
(* the operations of the task store are the storage functions themselves.  *)
(* The two tables are not in the schema of database.py: the flags start    *)
(* false, as the data model states (independent booleans, set by the two   *)
(* confirmations).                                                         *)
(***************************************************************************)
flag_default == FALSE

\* storage.create_cleanup_task 514-523
create_cleanup_task ==
    /\ Len(cleanup_tasks) < MaxTasks
    /\ cleanup_tasks' = Append(cleanup_tasks,
           [status |-> "pending", orchestrator_deleted |-> flag_default,
            daemon_deleted |-> flag_default, error_message |-> None])
    /\ UNCHANGED <<retransfer_tasks, registryVars, now, active_uploads, streamVars, daemonVars>>

\* storage.mark_cleanup_orchestrator_done 556-566: SET orchestrator_deleted = true
mark_cleanup_orchestrator_done(t) ==
    /\ t \in DOMAIN cleanup_tasks
    /\ cleanup_tasks' = [cleanup_tasks EXCEPT ![t].orchestrator_deleted = TRUE]
    /\ UNCHANGED <<retransfer_tasks, registryVars, now, active_uploads, streamVars, daemonVars>>

\* storage.mark_cleanup_daemon_done 568-580: SET daemon_deleted = true,
\* status = CASE WHEN orchestrator_deleted THEN 'completed' ELSE status END
mark_cleanup_daemon_done(t) ==
    /\ t \in DOMAIN cleanup_tasks
    /\ cleanup_tasks' = [cleanup_tasks EXCEPT
           ![t].daemon_deleted = TRUE,
           ![t].status = IF cleanup_tasks[t].orchestrator_deleted THEN "completed" ELSE @]
    /\ UNCHANGED <<retransfer_tasks, registryVars, now, active_uploads, streamVars, daemonVars>>

\* storage.complete_cleanup_task 582-592: SET status = 'completed'
complete_cleanup_task(t) ==
    /\ t \in DOMAIN cleanup_tasks
    /\ cleanup_tasks' = [cleanup_tasks EXCEPT ![t].status = "completed"]
    /\ UNCHANGED <<retransfer_tasks, registryVars, now, active_uploads, streamVars, daemonVars>>

\* storage.fail_cleanup_task 594-604: SET status = 'failed', error_message = $2
fail_cleanup_task(t, error_message) ==
    /\ t \in DOMAIN cleanup_tasks
    /\ cleanup_tasks' = [cleanup_tasks EXCEPT ![t].status = "failed",
                                              ![t].error_message = error_message]
    /\ UNCHANGED <<retransfer_tasks, registryVars, now, active_uploads, streamVars, daemonVars>>

\* storage.update_cleanup_task 538-554: SET <column> = <value> for every key of
\* `updates`; the model passes a status.
update_cleanup_task(t, status) ==
    /\ t \in DOMAIN cleanup_tasks
    /\ cleanup_tasks' = [cleanup_tasks EXCEPT ![t].status = status]
    /\ UNCHANGED <<retransfer_tasks, registryVars, now, active_uploads, streamVars, daemonVars>>

\* storage.create_retransfer_task 608-617
create_retransfer_task ==
    /\ Len(retransfer_tasks) < MaxTasks
    /\ retransfer_tasks' = Append(retransfer_tasks,
           [status |-> "pending", orchestrator_deleted |-> flag_default,
            daemon_acknowledged |-> flag_default])
    /\ UNCHANGED <<cleanup_tasks, registryVars, now, active_uploads, streamVars, daemonVars>>

\* storage.mark_retransfer_orchestrator_done 630-640
mark_retransfer_orchestrator_done(t) ==
    /\ t \in DOMAIN retransfer_tasks
    /\ retransfer_tasks' = [retransfer_tasks EXCEPT ![t].orchestrator_deleted = TRUE]
    /\ UNCHANGED <<cleanup_tasks, registryVars, now, active_uploads, streamVars, daemonVars>>

\* storage.mark_retransfer_acknowledged 642-653: SET daemon_acknowledged = true,
\* status = 'in_progress'
mark_retransfer_acknowledged(t) ==
    /\ t \in DOMAIN retransfer_tasks
    /\ retransfer_tasks' = [retransfer_tasks EXCEPT ![t].daemon_acknowledged = TRUE,
                                                    ![t].status = "in_progress"]
    /\ UNCHANGED <<cleanup_tasks, registryVars, now, active_uploads, streamVars, daemonVars>>

\* storage.complete_retransfer_task 655-665: SET status = 'completed'
complete_retransfer_task(t) ==
    /\ t \in DOMAIN retransfer_tasks
    /\ retransfer_tasks' = [retransfer_tasks EXCEPT ![t].status = "completed"]
    /\ UNCHANGED <<cleanup_tasks, registryVars, now, active_uploads, streamVars, daemonVars>>

TaskStatuses == {"pending", "completed", "failed"}

NextTasks ==
    \/ create_cleanup_task
    \/ \E t \in TaskIds : mark_cleanup_orchestrator_done(t)
    \/ \E t \in TaskIds : mark_cleanup_daemon_done(t)
    \/ \E t \in TaskIds : complete_cleanup_task(t)
    \/ \E t \in TaskIds : fail_cleanup_task(t, "disk error")
    \/ \E t \in TaskIds, st \in TaskStatuses : update_cleanup_task(t, st)
    \/ create_retransfer_task
    \/ \E t \in TaskIds : mark_retransfer_orchestrator_done(t)
    \/ \E t \in TaskIds : mark_retransfer_acknowledged(t)
    \/ \E t \in TaskIds : complete_retransfer_task(t)

SpecTasks == Init /\ [][NextTasks]_vars

(***************************************************************************)
(* SpecIngest: the ways content reaches the center (metadata registration, *)
(* streamed and buffered upload), the pre-upload check, deletion of an     *)
(* unlocked record, the ledger override, and the site registry.            *)
(***************************************************************************)
NextIngest ==
    \/ \E s \in SiteNames, d \in BOOLEAN : site_heartbeat(s, d)
    \/ \E s \in SiteNames : create_site(s)
    \/ \E s \in SiteNames, name \in SiteNames : update_site(s, name)
    \/ \E p \in Paths, h \in Hashes :
          nextId < MaxFiles /\ create_file("tustin", p, MaxSize, h)
    \/ \E req \in Running : create_audit_log(req)
    \/ \E s \in {"Tustin", ""}, p \in {"/exports/a.mov", ""}, bn \in Sizes, bh \in Hashes :
          upload_file_stream(s, p, MaxSize, "h1", bn, bh)
    \/ \E s \in {"Tustin"}, p \in Paths, bh \in Hashes : upload_file(s, p, MaxSize, bh)
    \/ \E h \in Hashes \cup {""}, s \in {"tustin", ""}, p \in {"/exports/a.mov", ""} :
          check_file_exists(h, "", s, p)
    \/ \E f \in FileIds : insert_transfer_job(f)
    \/ \E f \in FileIds : delete_file(f)
    \/ \E req \in Running : delete_audit_rows(req)
    \/ \E req \in Running : delete_job_rows(req)
    \/ \E req \in Running : delete_file_row(req)
    \/ \E h \in Hashes : delete_file_from_history(h)

SpecIngest == Init /\ [][NextIngest]_vars

(***************************************************************************)
(* The wall clock.  d is the time that passes in one step of the clock.    *)
(***************************************************************************)
Tick(d) ==
    /\ now + d <= MaxTime
    /\ now' = now + d
    /\ UNCHANGED <<registryVars, taskVars, active_uploads, streamVars, daemonVars>>

(***************************************************************************)
(* storage.add_to_file_history 104-122: record(hash, filename, site, size).*)
(* SELECT the row of the hash and return it when there is one, else INSERT *)
(* a row and return it: two statements on a pooled connection, without a   *)
(* transaction, so other calls run between them.  The table file_history   *)
(* is not created by database.py: when the INSERT meets a row another call *)
(* inserted since the SELECT, it either adds a second row for the hash (no *)
(* unique constraint) or raises UniqueViolationError (unique constraint).  *)
(***************************************************************************)
Filenames == {"a.mov", "b.mov"}

LedgerRow(call, at) ==
    [filename |-> call.filename, source_site |-> call.source_site,
     file_size |-> call.file_size, first_seen_at |-> at]

add_to_file_history(sha256_hash, filename, source_site, file_size) ==
    /\ CanAccept
    /\ UNCHANGED <<files, audit_logs, transfer_jobs, file_history, users, sites, nextId,
                   taskVars, now, active_uploads, streamVars, daemonVars>>
    /\ IF sha256_hash \in DOMAIN file_history
         THEN /\ last' = Response("record", 0, 200, "existing")
              /\ UNCHANGED reqs
         ELSE /\ reqs' = Put([op |-> "record", pc |-> "insert", sha256_hash |-> sha256_hash,
                              filename |-> filename, source_site |-> source_site,
                              file_size |-> file_size])
              /\ last' = NoResponse

insert_file_history(call) ==
    LET h == call.sha256_hash IN
    /\ call \in Running
    /\ call.op = "record" /\ call.pc = "insert"
    /\ reqs' = Take(call)
    /\ UNCHANGED <<files, audit_logs, transfer_jobs, users, sites, nextId,
                   taskVars, now, active_uploads, streamVars, daemonVars>>
    /\ IF h \notin DOMAIN file_history
         THEN /\ file_history' = file_history @@ (h :> <<LedgerRow(call, now)>>)
              /\ last' = Response("record", 0, 200, "inserted")
         ELSE \/ /\ file_history' = [file_history EXCEPT ![h] = Append(@, LedgerRow(call, now))]
                 /\ last' = Response("record", 0, 200, "inserted")
              \/ /\ UNCHANGED file_history
                 /\ last' = Response("record", 0, 500, "UniqueViolationError")

(***************************************************************************)
(* SpecLedger: the permanent ledger under calls of record from concurrent  *)
(* requests, and the administrative override.                              *)
(***************************************************************************)
NextLedger ==
    \/ \E h \in Hashes, name \in Filenames, size \in Sizes :
          add_to_file_history(h, name, "tustin", size)
    \/ \E call \in Running : insert_file_history(call)
    \/ \E h \in Hashes : delete_file_from_history(h)
    \/ Tick(HEARTBEAT_INTERVAL)

SpecLedger == Init /\ [][NextLedger]_vars

(***************************************************************************)
(* The site daemon (site_daemon/daemon.py) of one site, its watch          *)
(* directory and the clock.  The daemon is one asyncio event loop running  *)
(* four coroutines (run, 475-497: heartbeat_loop, process_pending_files,   *)
(* check_writing_files, upload_stable_files) and a watcher thread that     *)
(* calls FileDetector.on_created.  A step of a coroutine is the code       *)
(* between two awaits; asyncio.sleep bounds the pace of a loop from below  *)
(* only, so a loop at its sleep may take its next turn in any later state. *)
(* In the initial state the daemon has started on an empty watch directory *)
(* and its loops run.                                                      *)
(***************************************************************************)
DaemonSite == "tustin"

\* Path(file_path).name
Basename(p) == IF p = "/exports/a.mov" THEN "a.mov" ELSE "b.mov"

\* hashlib.sha256 over the bytes of a file.  A writer appends to a file, so the
\* bytes of a file of the model are determined by its length, and files of
\* different length have different bytes.
HashOf(size) == IF size = 1 THEN "h1" ELSE "h2"

Without(fn, p) == [x \in DOMAIN fn \ {p} |-> fn[x]]

\* The ways to put the elements of a set in a sequence.
Orders(S) == {s \in [1..Cardinality(S) -> S] : \A i, j \in DOMAIN s : s[i] = s[j] => i = j}

\* The writer of the watch directory: creates a file or appends to it ...
write_file(p) ==
    /\ IF p \in DOMAIN disk
         THEN /\ disk[p].size < MaxSize
              /\ disk' = [disk EXCEPT ![p] = [size |-> @.size + 1, mtime |-> now]]
         ELSE disk' = disk @@ (p :> [size |-> 1, mtime |-> now])
    /\ UNCHANGED <<registryVars, taskVars, now, active_uploads, streamVars, runVars, seen_files, pending_queue,
                   writing_files, stable_queue, uploading_file, in_upload>>

\* ... rewrites bytes in place (the modification time changes, the size does not) ...
touch_file(p) ==
    /\ p \in DOMAIN disk
    /\ disk[p].mtime # now
    /\ disk' = [disk EXCEPT ![p].mtime = now]
    /\ UNCHANGED <<registryVars, taskVars, now, active_uploads, streamVars, runVars, seen_files, pending_queue,
                   writing_files, stable_queue, uploading_file, in_upload>>

\* ... or removes the file.
remove_file(p) ==
    /\ p \in DOMAIN disk
    /\ disk' = Without(disk, p)
    /\ UNCHANGED <<registryVars, taskVars, now, active_uploads, streamVars, runVars, seen_files, pending_queue,
                   writing_files, stable_queue, uploading_file, in_upload>>

\* daemon.py 246-251: calculate_hash is declared async but awaits nothing: it
\* reads the whole file in a plain loop, and upload_file runs it in the same
\* turn of the event loop that took the file from stable_queue.  Until the
\* last chunk is read no other coroutine of the daemon gets a turn.
Blocked == \E p \in DOMAIN in_upload : in_upload[p].phase = "hashing"

\* daemon.py 54-68: FileDetector.on_created, on the watcher thread.
on_created(p) ==
    /\ p \in DOMAIN disk
    /\ p \notin seen_files
    /\ seen_files' = seen_files \cup {p}
    /\ pending_queue' = Append(pending_queue, p)
    /\ UNCHANGED <<registryVars, taskVars, now, active_uploads, streamVars, runVars, disk, writing_files,
                   stable_queue, uploading_file, in_upload>>

\* check_file_stability_instant with a change of the file recorded but stable_since
\* left as it was.
check_file_stability_instant_keeps_stable_since(p, wf) ==
    IF p \notin DOMAIN disk
      THEN [is_stable |-> FALSE, should_track |-> FALSE, writing_files |-> wf]
    ELSE IF p \notin DOMAIN wf
      THEN [is_stable |-> FALSE, should_track |-> TRUE,
            writing_files |-> wf @@ (p :> [last_size |-> disk[p].size,
                                           last_mtime |-> disk[p].mtime,
                                           stable_since |-> now])]
    ELSE IF disk[p].size # wf[p].last_size \/ disk[p].mtime # wf[p].last_mtime
      THEN [is_stable |-> FALSE, should_track |-> TRUE,
            writing_files |-> [wf EXCEPT ![p] = [last_size |-> disk[p].size,
                                                 last_mtime |-> disk[p].mtime,
                                                 stable_since |-> @.stable_since]]]
    ELSE IF now - wf[p].stable_since >= FILE_STABILITY_SECONDS
      THEN [is_stable |-> TRUE, should_track |-> FALSE, writing_files |-> Without(wf, p)]
    ELSE [is_stable |-> FALSE, should_track |-> TRUE, writing_files |-> wf]

(***************************************************************************)
(* daemon.py 353-401: check_file_stability_instant(file_path), on the      *)
(* tracking table wf.  The result is (is_stable, should_track) and the     *)
(* table the call leaves.  A file that is gone stays in the table.         *)
(***************************************************************************)
check_file_stability_instant(p, wf) ==
    IF p \notin DOMAIN disk
      THEN [is_stable |-> FALSE, should_track |-> FALSE, writing_files |-> wf]
    ELSE IF p \notin DOMAIN wf
      THEN [is_stable |-> FALSE, should_track |-> TRUE,
            writing_files |-> wf @@ (p :> [last_size |-> disk[p].size,
                                           last_mtime |-> disk[p].mtime,
                                           stable_since |-> now])]
    ELSE IF disk[p].size # wf[p].last_size \/ disk[p].mtime # wf[p].last_mtime
      THEN [is_stable |-> FALSE, should_track |-> TRUE,
            writing_files |-> [wf EXCEPT ![p] = [last_size |-> disk[p].size,
                                                 last_mtime |-> disk[p].mtime,
                                                 stable_since |-> now]]]
    ELSE IF now - wf[p].stable_since >= FILE_STABILITY_SECONDS
      THEN [is_stable |-> TRUE, should_track |-> FALSE, writing_files |-> Without(wf, p)]
    ELSE [is_stable |-> FALSE, should_track |-> TRUE, writing_files |-> wf]

\* daemon.py 434-454: one turn of process_pending_files.
process_pending_files ==
    /\ run_pc = "gather"
    /\ ~Blocked
    /\ pending_queue # <<>>
    /\ LET file_path == Head(pending_queue)
           check == check_file_stability_instant(file_path, writing_files)
       IN /\ pending_queue' = Tail(pending_queue)
          /\ writing_files' = check.writing_files
          /\ stable_queue' = IF check.is_stable THEN Append(stable_queue, file_path)
                                                ELSE stable_queue
    /\ UNCHANGED <<registryVars, taskVars, now, active_uploads, streamVars, runVars, disk, seen_files,
                   uploading_file, in_upload>>

\* daemon.py 403-432: one turn of check_writing_files.  The calls for the keys of
\* writing_files touch one key each; the stable files are queued in the order of
\* the dict, which is any order here.
check_writing_files ==
    /\ run_pc = "gather"
    /\ ~Blocked
    /\ writing_files # <<>>
    /\ LET check == [p \in DOMAIN writing_files |->
                        check_file_stability_instant(p, writing_files)]
           stable_files == {p \in DOMAIN writing_files : check[p].is_stable}
           tracked == {p \in DOMAIN writing_files : p \in DOMAIN check[p].writing_files}
       IN /\ writing_files' = [p \in tracked |-> check[p].writing_files[p]]
          /\ \E order \in Orders(stable_files) : stable_queue' = stable_queue \o order
    /\ UNCHANGED <<registryVars, taskVars, now, active_uploads, streamVars, runVars, disk, seen_files,
                   pending_queue, uploading_file, in_upload>>

\* upload_stable_files taking the next file while an upload is still running, as
\* if the upload were started as a task of its own and not awaited.
upload_stable_files_without_waiting ==
    /\ run_pc = "gather"
    /\ ~Blocked
    /\ stable_queue # <<>>
    /\ LET file_path == Head(stable_queue)
       IN /\ stable_queue' = Tail(stable_queue)
          /\ IF file_path \in DOMAIN disk
               THEN /\ uploading_file' = file_path
                    /\ in_upload' = in_upload @@
                          (file_path :> [phase |-> "hashing",
                                         file_size |-> disk[file_path].size,
                                         sha256_hash |-> ""])
               ELSE /\ uploading_file' = None
                    /\ UNCHANGED in_upload
    /\ UNCHANGED <<registryVars, taskVars, now, active_uploads, streamVars, runVars, disk, seen_files,
                   pending_queue, writing_files>>

(***************************************************************************)
(* daemon.py 456-473: upload_stable_files.  The coroutine is at its        *)
(* stable_queue.get() exactly when uploading_file is None: it awaits       *)
(* upload_file before it loops.  Taking a file runs on into upload_file    *)
(* (154-160): stat the file (a file that is gone raises, caught at 471)    *)
(* and start to hash it.                                                   *)
(***************************************************************************)
upload_stable_files ==
    /\ run_pc = "gather"
    /\ ~Blocked
    /\ uploading_file = None
    /\ stable_queue # <<>>
    /\ LET file_path == Head(stable_queue)
       IN /\ stable_queue' = Tail(stable_queue)
          /\ IF file_path \in DOMAIN disk
               THEN /\ uploading_file' = file_path
                    /\ in_upload' = in_upload @@
                          (file_path :> [phase |-> "hashing",
                                         file_size |-> disk[file_path].size,
                                         sha256_hash |-> ""])
               ELSE /\ uploading_file' = None
                    /\ UNCHANGED in_upload
    /\ UNCHANGED <<registryVars, taskVars, now, active_uploads, streamVars, runVars, disk, seen_files,
                   pending_queue, writing_files>>

\* daemon.py 246-251, 161: the last chunk is hashed; the coroutine goes on to the
\* request of check_file_exists_on_server and gives up the event loop.
calculate_hash(p) ==
    /\ p \in DOMAIN in_upload
    /\ in_upload[p].phase = "hashing"
    /\ IF p \in DOMAIN disk
         THEN /\ in_upload' = [in_upload EXCEPT ![p].phase = "checking",
                                                ![p].sha256_hash = HashOf(disk[p].size)]
              /\ UNCHANGED uploading_file
         ELSE /\ in_upload' = Without(in_upload, p)
              /\ uploading_file' = None
    /\ UNCHANGED <<registryVars, taskVars, now, active_uploads, streamVars, runVars, disk, seen_files,
                   pending_queue, writing_files, stable_queue>>

\* daemon.py 70-92, 163-167: GET /api/files/check with hash, filename and site (no
\* source_path), answered by main.check_file_exists.  "exists" ends the upload;
\* any other answer goes on to the upload request.
check_file_exists_on_server(p) ==
    /\ ~Blocked
    /\ p \in DOMAIN in_upload
    /\ in_upload[p].phase = "checking"
    /\ last' = CheckResponse(in_upload[p].sha256_hash, Basename(p), DaemonSite, "")
    /\ IF CheckOutcome(in_upload[p].sha256_hash, Basename(p), DaemonSite, "") = "exists"
         THEN /\ in_upload' = Without(in_upload, p)
              /\ uploading_file' = None
         ELSE /\ in_upload' = [in_upload EXCEPT ![p].phase = "streaming"]
              /\ UNCHANGED uploading_file
    /\ UNCHANGED <<files, audit_logs, transfer_jobs, file_history, users, sites, nextId,
                   reqs, taskVars, now, active_uploads, streamVars, runVars, disk, seen_files, pending_queue,
                   writing_files, stable_queue>>

\* daemon.py 169-216: POST /api/files/upload-stream with the size, hash, site and
\* path headers, answered by main.upload_file_stream; every answer ends the upload.
\* A file that is gone makes file_sender raise and no answer is received.
stream_file(p) ==
    /\ ~Blocked
    /\ p \in DOMAIN in_upload
    /\ in_upload[p].phase = "streaming"
    /\ last' = IF p \in DOMAIN disk THEN UploadStreamResponse(DaemonSite, p)
                                    ELSE NoResponse
    /\ in_upload' = Without(in_upload, p)
    /\ uploading_file' = None
    /\ UNCHANGED <<files, audit_logs, transfer_jobs, file_history, users, sites, nextId,
                   reqs, taskVars, now, active_uploads, streamVars, runVars, disk, seen_files, pending_queue,
                   writing_files, stable_queue>>

\* daemon.py 275-292, 299-302: one turn of heartbeat_loop, answered by
\* main.site_heartbeat for a caller with the daemon key.
send_heartbeat ==
    /\ run_pc = "gather"
    /\ ~Blocked
    /\ site_heartbeat(DaemonSite, TRUE)

\* send_heartbeat without its try/except: an exception of the request leaves
\* heartbeat_loop and ends asyncio.gather, and with it the daemon.
send_heartbeat_fails_uncaught(code) ==
    /\ run_pc = "gather"
    /\ ~Blocked
    /\ last' = Response("heartbeat", 0, code, "failed")
    /\ run_pc' = IF code = 0 THEN "stopped" ELSE run_pc
    /\ UNCHANGED <<files, audit_logs, transfer_jobs, file_history, users, sites, nextId,
                   reqs, taskVars, now, active_uploads, streamVars, upload_files,
                   scan_listing, scan_visited, disk, seen_files, pending_queue,
                   writing_files, stable_queue, uploading_file, in_upload>>

\* daemon.py 275-292: a heartbeat that fails, with a status other than 200 (282-286)
\* or with an exception of the request (code 0; 287-288).  Both are printed and
\* send_heartbeat returns to heartbeat_loop.
send_heartbeat_fails(code) ==
    /\ run_pc = "gather"
    /\ ~Blocked
    /\ last' = Response("heartbeat", 0, code, "failed")
    /\ UNCHANGED <<files, audit_logs, transfer_jobs, file_history, users, sites, nextId,
                   reqs, taskVars, now, active_uploads, streamVars, runVars, disk,
                   seen_files, pending_queue, writing_files, stable_queue,
                   uploading_file, in_upload>>

\* daemon.py 70-92: an existence check that fails, with a status other than 200
\* (86-88) or with an exception of the request (code 0; 89-91).  The function
\* returns False and upload_file goes on to the upload request.
check_file_exists_on_server_fails(p, code) ==
    /\ ~Blocked
    /\ p \in DOMAIN in_upload
    /\ in_upload[p].phase = "checking"
    /\ last' = Response("check", 0, code, "failed")
    /\ in_upload' = [in_upload EXCEPT ![p].phase = "streaming"]
    /\ UNCHANGED <<files, audit_logs, transfer_jobs, file_history, users, sites, nextId,
                   reqs, taskVars, now, active_uploads, streamVars, runVars, disk,
                   seen_files, pending_queue, writing_files, stable_queue, uploading_file>>

(***************************************************************************)
(* The steps of the daemon, of the writer of its watch directory and of    *)
(* the clock, for the files of the set P.                                  *)
(***************************************************************************)
DaemonStep(P) ==
    \/ \E p \in P : write_file(p)
    \/ \E p \in P : touch_file(p)
    \/ \E p \in P : remove_file(p)
    \/ Tick(HEARTBEAT_INTERVAL)
    \/ \E p \in P : on_created(p)
    \/ process_pending_files
    \/ check_writing_files
    \/ upload_stable_files
    \/ \E p \in P : calculate_hash(p)
    \/ \E p \in P : check_file_exists_on_server(p)
    \/ \E p \in P : stream_file(p)
    \/ send_heartbeat

\* SpecDaemon: the daemon of one site with two files in its watch directory.
NextDaemon == DaemonStep(Paths)

SpecDaemon == Init /\ [][NextDaemon]_vars

\* SpecFailures: the daemon of SpecDaemon with heartbeats and existence checks
\* that fail: the center answers 401 or 500, or the request raises (code 0).
FailureCodes == {0, 401, 500}

NextFailures ==
    \/ DaemonStep(Paths)
    \/ \E code \in FailureCodes : send_heartbeat_fails(code)
    \/ \E p \in Paths, code \in FailureCodes : check_file_exists_on_server_fails(p, code)

SpecFailures == Init /\ [][NextFailures]_vars

\* SpecPreUpload: the daemon with one file, and at the center the metadata
\* registration of another client (POST /api/files).
NextPreUpload ==
    \/ DaemonStep({"/exports/a.mov"})
    \/ \E h \in Hashes :
          nextId < MaxTracked /\ create_file(DaemonSite, "/exports/a.mov", MaxSize, h)
    \/ \E req \in Running : create_audit_log(req)

SpecPreUpload == Init /\ [][NextPreUpload]_vars

(***************************************************************************)
(* daemon.py 513-547, 254-267, 475-489: the daemon process is started (or  *)
(* started again): main builds a SiteDaemon with upload_files = not        *)
(* args.metadata_only and fresh queues and tables, run starts the watcher  *)
(* with a fresh FileDetector (343-351) and enters scan_existing_files,     *)
(* whose iterdir lists the watch directory.  Uploads of the process before *)
(* end with it.  The disk, the clock and the center stay as they are.      *)
(***************************************************************************)
main(metadata_only) ==
    /\ upload_files' = ~metadata_only
    /\ run_pc' = "scan"
    /\ scan_listing' = DOMAIN disk
    /\ scan_visited' = {}
    /\ seen_files' = {}
    /\ pending_queue' = <<>>
    /\ writing_files' = <<>>
    /\ stable_queue' = <<>>
    /\ uploading_file' = None
    /\ in_upload' = <<>>
    /\ UNCHANGED <<registryVars, taskVars, now, active_uploads, streamVars, disk>>

(***************************************************************************)
(* daemon.py 314-321: one round of the loop of scan_existing_files, for    *)
(* the entry p: a file listed when the scan began, or one created since,   *)
(* which iterdir may or may not yield.  An entry that is a file is added   *)
(* to seen_files and queued, whether or not seen_files held it already.    *)
(***************************************************************************)
scan_existing_files(p) ==
    /\ run_pc = "scan"
    /\ p \in (scan_listing \cup DOMAIN disk) \ scan_visited
    /\ scan_visited' = scan_visited \cup {p}
    /\ IF p \in DOMAIN disk
         THEN /\ seen_files' = seen_files \cup {p}
              /\ pending_queue' = Append(pending_queue, p)
         ELSE UNCHANGED <<seen_files, pending_queue>>
    /\ UNCHANGED <<registryVars, taskVars, now, active_uploads, streamVars, upload_files, run_pc,
                   scan_listing, disk, writing_files, stable_queue, uploading_file,
                   in_upload>>

\* run starting the watcher after the scan, so that the FileDetector of the loops
\* has a seen_files of its own, without the paths the scan queued.
run_starts_watcher_after_scan ==
    /\ run_pc = "scan"
    /\ scan_listing \subseteq scan_visited
    /\ run_pc' = "gather"
    /\ scan_listing' = {}
    /\ scan_visited' = {}
    /\ seen_files' = {}
    /\ UNCHANGED <<registryVars, taskVars, now, active_uploads, streamVars, upload_files, disk,
                   pending_queue, writing_files, stable_queue, uploading_file, in_upload>>

\* daemon.py 489-497: scan_existing_files has visited every listed entry and
\* returns; run starts the four loops with asyncio.gather.
run ==
    /\ run_pc = "scan"
    /\ scan_listing \subseteq scan_visited
    /\ run_pc' = "gather"
    /\ scan_listing' = {}
    /\ scan_visited' = {}
    /\ UNCHANGED <<registryVars, taskVars, now, active_uploads, streamVars, upload_files, disk,
                   seen_files, pending_queue, writing_files, stable_queue,
                   uploading_file, in_upload>>

(***************************************************************************)
(* The clock of a session.  process_pending_files waits on the queue with  *)
(* wait_for(get, timeout=1.0) (daemon.py 437), so while the loops run and  *)
(* the event loop is free, a queued path is taken before                   *)
(* HEARTBEAT_INTERVAL seconds pass.                                        *)
(***************************************************************************)
TickPrompt ==
    /\ pending_queue = <<>> \/ Blocked \/ run_pc # "gather"
    /\ Tick(HEARTBEAT_INTERVAL)

\* SpecSession: the daemon of one site over restarts, with and without
\* --metadata-only, and two files in its watch directory.
NextSession ==
    \/ \E metadata_only \in BOOLEAN : main(metadata_only)
    \/ \E p \in Paths : scan_existing_files(p)
    \/ run
    \/ \E p \in Paths : write_file(p)
    \/ \E p \in Paths : touch_file(p)
    \/ \E p \in Paths : remove_file(p)
    \/ TickPrompt
    \/ \E p \in Paths : on_created(p)
    \/ process_pending_files
    \/ check_writing_files
    \/ upload_stable_files
    \/ \E p \in Paths : calculate_hash(p)
    \/ \E p \in Paths : check_file_exists_on_server(p)
    \/ \E p \in Paths : stream_file(p)

SpecSession == Init /\ [][NextSession]_vars

(***************************************************************************)
(* main.py 405-407: the progress of an upload,                             *)
(*     progress = int((file_size / expected_size) * 100)                   *)
(*                if expected_size > 0 else 0                              *)
(*     active_uploads[upload_id]["progress"] = min(progress, 100)          *)
(* "/" on two ints is the division of floats: the operands are exact, the  *)
(* quotient is rounded to the nearest float (ties to even), so is the      *)
(* product with 100, and int() drops the fraction.  A float x >= 1/2^16 is *)
(* kept as its exponent and the 52 bits after the leading 1 of its         *)
(* mantissa, in three parts of 18, 18 and 16 bits:                         *)
(*     x = (2^52 + f1 * 2^34 + f2 * 2^16 + f3) * 2^(exp - 52)              *)
(***************************************************************************)
Limb == 262144
LowLimb == 65536
MaxShift == 16

\* Rounding to the nearest float, ties to even: guard is the first bit dropped,
\* sticky whether any later bit was set.
RoundTiesToEven(f1, f2, f3, guard, sticky, e) ==
    IF guard = 1 /\ (sticky \/ f3 % 2 = 1)
      THEN IF f3 + 1 < LowLimb THEN [f1 |-> f1, f2 |-> f2, f3 |-> f3 + 1, exp |-> e]
           ELSE IF f2 + 1 < Limb THEN [f1 |-> f1, f2 |-> f2 + 1, f3 |-> 0, exp |-> e]
           ELSE IF f1 + 1 < Limb THEN [f1 |-> f1 + 1, f2 |-> 0, f3 |-> 0, exp |-> e]
           ELSE [f1 |-> 0, f2 |-> 0, f3 |-> 0, exp |-> e + 1]
      ELSE [f1 |-> f1, f2 |-> f2, f3 |-> f3, exp |-> e]

\* a / b for integers a, b >= 1: long division of a by b, 54 bits after the
\* leading 1.
float_div(a, b) ==
    LET up == a >= b
        k == IF up THEN CHOOSE n \in 0..MaxShift : b * 2^n <= a /\ a < b * 2^(n + 1)
                   ELSE CHOOSE n \in 1..MaxShift : b <= a * 2^n /\ a * 2^n < 2 * b
        aa == IF up THEN a ELSE a * 2^k
        bb == IF up THEN b * 2^k ELSE b
        r0 == aa - bb
        d1 == (r0 * Limb) \div bb
        r1 == (r0 * Limb) % bb
        d2 == (r1 * Limb) \div bb
        r2 == (r1 * Limb) % bb
        d3 == (r2 * Limb) \div bb
        r3 == (r2 * Limb) % bb
    IN RoundTiesToEven(d1, d2, d3 \div 4, (d3 \div 2) % 2, d3 % 2 = 1 \/ r3 # 0,
                       IF up THEN k ELSE 0 - k)

\* x * 100: the exact product has 59 or 60 bits, of which 53 are kept.
float_mul_100(x) ==
    LET t3 == 100 * x.f3
        l3 == t3 % LowLimb
        t2 == 100 * x.f2 + t3 \div LowLimb
        l2 == t2 % Limb
        t1 == 100 * x.f1 + t2 \div Limb
        l1 == t1 % Limb
        t0 == 100 + t1 \div Limb
        D == IF t0 < 128 THEN 64 ELSE 128
    IN RoundTiesToEven((t0 % D) * (Limb \div D) + l1 \div D,
                       (l1 % D) * (Limb \div D) + l2 \div D,
                       (l2 % D) * (LowLimb \div D) + l3 \div D,
                       (l3 \div (D \div 2)) % 2,
                       l3 % (D \div 2) # 0,
                       x.exp + (IF t0 < 128 THEN 6 ELSE 7))

\* int(x) for a float 0 <= x < 2^19
float_to_int(x) ==
    IF x.exp < 0 THEN 0 ELSE 2^x.exp + x.f1 \div 2^(18 - x.exp)

progress(file_size, expected_size) ==
    LET percent == IF expected_size > 0
                     THEN IF file_size = 0 THEN 0
                          ELSE float_to_int(float_mul_100(float_div(file_size, expected_size)))
                     ELSE 0
    IN IF percent < 100 THEN percent ELSE 100

(***************************************************************************)
(* main.py 333-477 past line 362: POST /api/files/upload-stream with a     *)
(* duplicate check that answers.  storage.get_file_by_source is in no file *)
(* of the repository; here it is the check the specification names for     *)
(* this step of ingest: the FileRecord that already claims the (site,      *)
(* source path) pair, if any.  Everything else is the handler's code; each *)
(* await is a step of its own, and the uploads in flight are the entries   *)
(* of streams.                                                             *)
(*                                                                         *)
(* A file name is the sequence of its parts: names of directories and      *)
(* files, "/" and "\", and ".." where it stands as a part of its own.      *)
(***************************************************************************)
MaxStreams == 2

\* The FileRecord with this site and source path (0: none).
get_file_by_source(site, path) ==
    LET found == {f \in DOMAIN files : /\ Lower(files[f].source_site) = Lower(site)
                                       /\ files[f].source_path = path}
    IN IF found = {} THEN 0 ELSE CHOOSE f \in found : TRUE

\* os.path.basename: what follows the last "/".
basename(name) ==
    LET slashes == {i \in 1..Len(name) : name[i] = "/"}
        last_slash == IF slashes = {} THEN 0 ELSE CHOOSE i \in slashes : \A j \in slashes : j <= i
    IN SubSeq(name, last_slash + 1, Len(name))

\* main.py 369: safe_filename = os.path.basename(filename or "unnamed")
safe_filename(filename) == basename(IF filename = <<>> THEN <<"unnamed">> ELSE filename)

\* main.py 370: not safe_filename or ".." in safe_filename or "/" in safe_filename
\* or "\\" in safe_filename
invalid_filename(name) ==
    \/ name = <<>>
    \/ \E i \in 1..Len(name) : name[i] \in {"..", "/", "\\"}

\* os.path.join(STORAGE_PATH, source_site, safe_filename): the directory named as
\* the header names the site, and the name in it.
dest_path(source_site, name) == <<source_site, name>>

\* The row storage.create_file inserts for an upload: the columns of NewFile and
\* the filename.
NewUploadedFile(site, path, filename, size, hash) ==
    [state |-> "detected", locked |-> locked_default, sha256_hash |-> hash,
     source_site |-> site, source_path |-> path, file_size |-> size,
     assigned_to |-> 0, transfer_progress |-> transfer_progress_default,
     error_message |-> None, filename |-> filename]

\* uuid.uuid4(): an id no upload in flight has.
new_upload_id == CHOOSE u \in 1..MaxStreams : u \notin DOMAIN streams

\* except / finally of 469-477: the session is marked failed and removed from
\* active_uploads, the exception goes on to the client.  Nothing else is undone.
stream_fails(u, code, what) ==
    /\ streams' = Without(streams, u)
    /\ active_uploads' = active_uploads \ {u}
    /\ last' = Response("upload-stream", 0, code, what)

\* main.py 349-396: the checks, the registration of the session and the opening
\* of the destination file for writing, which empties a file that is there.
\* body_size and body_hash are the body the client is going to send.
\* An upload is taken only when a file id is left for it.
upload_file_stream_begin(site, path, filename, size, hash, body_size, body_hash) ==
    /\ Cardinality(DOMAIN streams) < MaxStreams
    /\ nextId + Cardinality(DOMAIN streams) < MaxFiles
    /\ UNCHANGED <<files, audit_logs, transfer_jobs, file_history, users, sites, nextId,
                   reqs, taskVars, now, daemonVars>>
    /\ IF site = "" \/ path = ""
         THEN /\ last' = Response("upload-stream", 0, 400, "Missing headers")
              /\ UNCHANGED <<active_uploads, streamVars>>
       ELSE IF Lower(site) \notin site_names
         THEN /\ last' = Response("upload-stream", 0, 400, "Unknown site")
              /\ UNCHANGED <<active_uploads, streamVars>>
       ELSE IF get_file_by_source(site, path) # 0
         THEN /\ last' = Response("upload-stream", 0, 409, "File already tracked")
              /\ UNCHANGED <<active_uploads, streamVars>>
       ELSE IF invalid_filename(safe_filename(filename))
         THEN /\ last' = Response("upload-stream", 0, 400, "Invalid filename")
              /\ UNCHANGED <<active_uploads, streamVars>>
       ELSE LET u == new_upload_id
                name == safe_filename(filename)[1]
            IN /\ active_uploads' = active_uploads \cup {u}
               /\ streams' = streams @@
                     (u :> [source_site |-> site, source_path |-> path,
                            safe_filename |-> name,
                            expected_size |-> size, expected_hash |-> hash,
                            body_size |-> body_size, body_hash |-> body_hash,
                            file_size |-> 0, receivedSize |-> 0, progress |-> 0,
                            status |-> "uploading", pc |-> "stream", fid |-> 0,
                            history_inserted |-> FALSE])
               /\ storage_dir' = [d \in DOMAIN storage_dir \cup {dest_path(site, name)} |->
                                     IF d = dest_path(site, name)
                                       THEN [size |-> 0, sha256_hash |-> ""]
                                       ELSE storage_dir[d]]
               /\ last' = NoResponse

\* main.py 399-408: one round of the loop over request.stream(), for a chunk of n
\* bytes.  The destination file holds the body once its last byte is written.
stream_chunk(u, n) ==
    /\ u \in DOMAIN streams
    /\ streams[u].pc = "stream"
    /\ streams[u].file_size + n <= streams[u].body_size
    /\ LET up == streams[u]
           dest == dest_path(up.source_site, up.safe_filename)
           file_size == up.file_size + n
       IN /\ streams' = [streams EXCEPT ![u].file_size = file_size,
                                        ![u].receivedSize = file_size,
                                        ![u].progress = progress(file_size, up.expected_size)]
          /\ storage_dir' = IF dest \in DOMAIN storage_dir
                              THEN [storage_dir EXCEPT ![dest] =
                                      [size |-> IF file_size > @.size THEN file_size ELSE @.size,
                                       sha256_hash |-> IF file_size = up.body_size
                                                         THEN up.body_hash ELSE ""]]
                              ELSE storage_dir
    /\ last' = NoResponse
    /\ UNCHANGED <<files, audit_logs, transfer_jobs, file_history, users, sites, nextId,
                   reqs, taskVars, now, active_uploads, daemonVars>>

\* The client goes away before it has sent its body: request.stream() raises.
stream_disconnect(u) ==
    /\ u \in DOMAIN streams
    /\ streams[u].pc = "stream"
    /\ streams[u].file_size < streams[u].body_size
    /\ stream_fails(u, 500, "ClientDisconnect")
    /\ UNCHANGED <<files, audit_logs, transfer_jobs, file_history, users, sites, nextId,
                   reqs, taskVars, now, storage_dir, daemonVars>>

\* main.py 410-437: the body has ended.  A size or hash that is not the declared
\* one removes the destination file and answers 400 (os.remove raises when the
\* file is gone already); otherwise the handler goes on to storage.
stream_verify(u) ==
    /\ u \in DOMAIN streams
    /\ streams[u].pc = "stream"
    /\ streams[u].file_size = streams[u].body_size
    /\ LET up == streams[u]
           dest == dest_path(up.source_site, up.safe_filename)
           mismatch == \/ up.expected_size > 0 /\ up.file_size # up.expected_size
                       \/ up.expected_hash # "" /\ up.body_hash # up.expected_hash
       IN IF mismatch
            THEN /\ storage_dir' = Without(storage_dir, dest)
                 /\ IF dest \in DOMAIN storage_dir
                      THEN stream_fails(u, 400, "File size or hash mismatch")
                      ELSE stream_fails(u, 500, "FileNotFoundError")
            ELSE /\ streams' = [streams EXCEPT ![u].status = "verifying",
                                               ![u].pc = "create_file"]
                 /\ last' = NoResponse
                 /\ UNCHANGED <<active_uploads, storage_dir>>
    /\ UNCHANGED <<files, audit_logs, transfer_jobs, file_history, users, sites, nextId,
                   reqs, taskVars, now, daemonVars>>

\* main.py 439-445 and storage.create_file 143-152: INSERT INTO files.
stream_create_file(u) ==
    /\ u \in DOMAIN streams
    /\ streams[u].pc = "create_file"
    /\ LET up == streams[u]
       IN /\ nextId' = nextId + 1
          /\ files' = files @@ ((nextId + 1) :>
                         NewUploadedFile(up.source_site, up.source_path, up.safe_filename,
                                         up.file_size, up.body_hash))
          /\ streams' = [streams EXCEPT ![u].fid = nextId + 1, ![u].pc = "history"]
    /\ last' = NoResponse
    /\ UNCHANGED <<audit_logs, transfer_jobs, file_history, users, sites, reqs, taskVars,
                   now, active_uploads, storage_dir, daemonVars>>

\* main.py 448 and storage.add_to_file_history 104-113: the SELECT; an entry that
\* is there is returned.
stream_check_file_history(u) ==
    /\ u \in DOMAIN streams
    /\ streams[u].pc = "history"
    /\ streams' = [streams EXCEPT ![u].pc = IF streams[u].body_hash \in DOMAIN file_history
                                              THEN "get_file" ELSE "insert_history"]
    /\ last' = NoResponse
    /\ UNCHANGED <<files, audit_logs, transfer_jobs, file_history, users, sites, nextId,
                   reqs, taskVars, now, active_uploads, storage_dir, daemonVars>>

\* storage.add_to_file_history 115-121: the INSERT, as insert_file_history does it.
stream_insert_file_history(u) ==
    /\ u \in DOMAIN streams
    /\ streams[u].pc = "insert_history"
    /\ LET up == streams[u]
           h == up.body_hash
           row == [filename |-> up.safe_filename, source_site |-> up.source_site,
                   file_size |-> up.file_size, first_seen_at |-> now]
       IN IF h \notin DOMAIN file_history
            THEN /\ file_history' = file_history @@ (h :> <<row>>)
                 /\ streams' = [streams EXCEPT ![u].pc = "get_file",
                                                    ![u].history_inserted = TRUE]
                 /\ last' = NoResponse
                 /\ UNCHANGED active_uploads
            ELSE \/ /\ file_history' = [file_history EXCEPT ![h] = Append(@, row)]
                    /\ streams' = [streams EXCEPT ![u].pc = "get_file",
                                                    ![u].history_inserted = TRUE]
                    /\ last' = NoResponse
                    /\ UNCHANGED active_uploads
                 \/ /\ UNCHANGED file_history
                    /\ stream_fails(u, 500, "UniqueViolationError")
    /\ UNCHANGED <<files, audit_logs, transfer_jobs, users, sites, nextId, reqs, taskVars,
                   now, storage_dir, daemonVars>>

\* main.py 450-453: the record is read again; a record that is gone is an error.
stream_get_file(u) ==
    /\ u \in DOMAIN streams
    /\ streams[u].pc = "get_file"
    /\ IF Exists(streams[u].fid)
         THEN /\ streams' = [streams EXCEPT ![u].pc = "audit"]
              /\ last' = NoResponse
              /\ UNCHANGED active_uploads
         ELSE stream_fails(u, 500, "not found in database after creation")
    /\ UNCHANGED <<files, audit_logs, transfer_jobs, file_history, users, sites, nextId,
                   reqs, taskVars, now, storage_dir, daemonVars>>

\* main.py 455-467, 474-477: the audit entry, the answer, and the finally.
stream_create_audit_log(u) ==
    /\ u \in DOMAIN streams
    /\ streams[u].pc = "audit"
    /\ streams' = Without(streams, u)
    /\ active_uploads' = active_uploads \ {u}
    /\ LET f == streams[u].fid
       IN IF Exists(f)
            THEN /\ audit_logs' = [audit_logs EXCEPT ![f] =
                                      Append(@, AuditRow([op |-> "create"]))]
                 /\ last' = Response("upload-stream", f, 200, "ok")
            ELSE /\ UNCHANGED audit_logs
                 /\ last' = Response("upload-stream", f, 500, "foreign key: audit_logs.file_id")
    /\ UNCHANGED <<files, transfer_jobs, file_history, users, sites, nextId, reqs, taskVars,
                   now, storage_dir, daemonVars>>

\* The file names clients send: plain, empty, with directories before the name,
\* ending in a separator, a lone "..", and with a backslash.
UploadNames == {<<"a.mov">>, <<>>, <<"..", "/", "a.mov">>, <<"dir", "/", "a.mov">>,
                <<"a.mov", "/">>, <<"..">>, <<"dir", "\\", "a.mov">>}

(***************************************************************************)
(* The steps of the uploads in flight.                                     *)
(***************************************************************************)
StreamStep ==
    \/ \E u \in DOMAIN streams : stream_chunk(u, 1)
    \/ \E u \in DOMAIN streams : stream_disconnect(u)
    \/ \E u \in DOMAIN streams : stream_verify(u)
    \/ \E u \in DOMAIN streams : stream_create_file(u)
    \/ \E u \in DOMAIN streams : stream_check_file_history(u)
    \/ \E u \in DOMAIN streams : stream_insert_file_history(u)
    \/ \E u \in DOMAIN streams : stream_get_file(u)
    \/ \E u \in DOMAIN streams : stream_create_audit_log(u)

(***************************************************************************)
(* SpecStream: streamed uploads of the name a.mov from the registered site *)
(* tustin, up to MaxStreams at a time, with bodies that match the declared *)
(* size and hash or do not, and clients that go away.                      *)
(***************************************************************************)
NextStream ==
    \/ site_heartbeat("tustin", TRUE)
    \/ \E p \in Paths, body_size \in Sizes, body_hash \in Hashes :
          upload_file_stream_begin("Tustin", p, <<"a.mov">>, MaxSize, "h1",
                                   body_size, body_hash)
    \/ StreamStep

SpecStream == Init /\ [][NextStream]_vars

(***************************************************************************)
(* SpecStreamDelete: one streamed upload at a time, and requests to delete *)
(* the record that may overlap with it.                                    *)
(***************************************************************************)
NextStreamDelete ==
    \/ site_heartbeat("tustin", TRUE)
    \/ \E h \in Hashes :
          /\ streams = <<>>
          /\ upload_file_stream_begin("Tustin", "/exports/a.mov", <<"a.mov">>, MaxSize, h,
                                      MaxSize, h)
    \/ StreamStep
    \/ \E f \in FileIds : delete_file(f)
    \/ \E req \in Running : delete_audit_rows(req)
    \/ \E req \in Running : delete_job_rows(req)
    \/ \E req \in Running : delete_file_row(req)

SpecStreamDelete == Init /\ [][NextStreamDelete]_vars

(***************************************************************************)
(* SpecUploadNames: one streamed upload at a time, under every name of     *)
(* UploadNames.                                                            *)
(***************************************************************************)
NextUploadNames ==
    \/ site_heartbeat("tustin", TRUE)
    \/ \E p \in Paths, name \in UploadNames :
          /\ streams = <<>>
          /\ upload_file_stream_begin("Tustin", p, name, 1, "h1", 1, "h1")
    \/ StreamStep

SpecUploadNames == Init /\ [][NextUploadNames]_vars

(***************************************************************************)
(* SpecProgress: one streamed upload with a declared size of 0 to          *)
(* MaxExpected bytes and a body of MaxBody bytes, received in chunks of 1  *)
(* and 7 bytes.                                                            *)
(***************************************************************************)
MaxExpected == 50
MaxBody == 60

NextProgress ==
    \/ site_heartbeat("tustin", TRUE)
    \/ \E size \in 0..MaxExpected :
          /\ nextId = 0 /\ streams = <<>>
          /\ upload_file_stream_begin("Tustin", "/exports/a.mov", <<"a.mov">>, size, "h1",
                                      MaxBody, "h1")
    \/ \E u \in DOMAIN streams, n \in {1, 7} : stream_chunk(u, n)
    \/ \E u \in DOMAIN streams : stream_disconnect(u)
    \/ \E u \in DOMAIN streams : stream_verify(u)

SpecProgress == Init /\ [][NextProgress]_vars

(***************************************************************************)
(* The transition table of the specification (section 4.2), written down   *)
(* from the specification and not from the handlers.                       *)
(***************************************************************************)
TablePrecondition(verb) ==
    CASE verb = "validate"          -> {"detected"}
      [] verb = "queue"             -> {"validated"}
      [] verb = "start-transfer"    -> {"queued"}
      [] verb = "complete-transfer" -> {"transferring"}
      [] verb = "assign"            -> {"validated", "transferred"}
      [] verb = "start"             -> {"colorist_assigned"}
      [] verb = "deliver"           -> {"in_progress"}
      [] verb = "archive"           -> {"delivered_to_mam"}

TableEdge(from, to) ==
    \/ from = "detected" /\ to = "validated"
    \/ from = "validated" /\ to = "queued"
    \/ from = "queued" /\ to = "transferring"
    \/ from = "transferring" /\ to = "transferred"
    \/ from \in {"validated", "transferred"} /\ to = "colorist_assigned"
    \/ from = "colorist_assigned" /\ to = "in_progress"
    \/ from = "in_progress" /\ to = "delivered_to_mam"
    \/ from = "delivered_to_mam" /\ to = "archived"
    \/ to = "rejected"

(***************************************************************************)
(* C1: once a file is locked, no delete on it succeeds: in every step      *)
(* taken while the file is locked, the file, its audit entries and its     *)
(* transfer-job record remain.                                             *)
(***************************************************************************)
C1_LockedFileIsNeverDeleted ==
    [][\A f \in FileIds :
         (Exists(f) /\ files[f].locked) =>
            /\ Exists(f)'
            /\ Len(audit_logs'[f]) >= Len(audit_logs[f])
            /\ (f \in transfer_jobs => f \in transfer_jobs')]_vars

(***************************************************************************)
(* C2: a request for validate, queue, start-transfer, complete-transfer,   *)
(* assign, start-work, deliver or archive on a file whose state is not the *)
(* table's precondition for it is answered with an error, and the file     *)
(* record and the audit trail are unchanged (nothing is left in flight     *)
(* that would change them later).                                          *)
(***************************************************************************)
\* (The first conjunct follows from BeginTransition; it is there to be evaluated
\* first.)
C2_Refused(verb, f, explicit) ==
    (/\ last'.op \in {verb, "none"}
     /\ Exists(f)
     /\ files[f].state \notin TablePrecondition(verb)
     /\ BeginTransition(verb, f, explicit, None)) =>
       /\ last' = [op |-> verb, fid |-> f, status |-> 400]
       /\ UNCHANGED <<files, audit_logs, reqs>>

C2_PreconditionViolationRejected ==
    [][\A f \in FileIds :
         /\ \A verb \in Verbs \ {"reject", "assign"} : C2_Refused(verb, f, 0)
         /\ \A u \in {0} \cup UserIds : C2_Refused("assign", f, u)]_vars

\* C2's case: queue was just refused on a file that is still detected, with its
\* audit trail in place.
C2_Witness ==
    /\ last = [op |-> "queue", fid |-> 1, status |-> 400]
    /\ Exists(1)
    /\ files[1].state = "detected"
    /\ Len(audit_logs[1]) = 1
    /\ reqs = EmptyBag

(***************************************************************************)
(* C3: every change of a file's stored state is an edge of the transition  *)
(* table, whatever the interleaving of the requests, and a record is       *)
(* created in state detected with locked = false.                          *)
(***************************************************************************)
C3_StateChangesFollowTable ==
    [][\A f \in FileIds :
         /\ (Exists(f) /\ Exists(f)' /\ files'[f].state # files[f].state) =>
               TableEdge(files[f].state, files'[f].state)
         /\ (~Exists(f) /\ Exists(f)') =>
               (files'[f].state = "detected" /\ files'[f].locked = FALSE)]_vars

(***************************************************************************)
(* C4: locked is false at creation, never goes back to false, goes from    *)
(* false to true only in the update of a validate request, and every       *)
(* validate that succeeds leaves the file locked.                          *)
(***************************************************************************)
C4_LockedMonotonic ==
    [][\A f \in FileIds :
         /\ (~Exists(f) /\ Exists(f)') => files'[f].locked = FALSE
         /\ (Exists(f) /\ Exists(f)' /\ files[f].locked) => files'[f].locked
         /\ (Exists(f) /\ Exists(f)' /\ ~files[f].locked /\ files'[f].locked) =>
               \E req \in Running :
                   req.op = "validate" /\ req.fid = f /\ update_file(req)
         /\ (\E req \in Running :
                 /\ req.op = "validate" /\ req.fid = f
                 /\ create_audit_log(req)
                 /\ last'.status = 200) =>
               (Exists(f)' /\ files'[f].locked)]_vars

\* C4's case: a file validated and then rejected is still locked.
C4_Witness ==
    /\ Exists(1)
    /\ files[1].state = "rejected"
    /\ files[1].locked
    /\ last = [op |-> "reject", fid |-> 1, status |-> 200]

(***************************************************************************)
(* C5: a confirmation recorded on a pending cleanup task leaves it         *)
(* completed when both confirmations are then recorded, in either order,   *)
(* and pending when only one is.                                           *)
(***************************************************************************)
C5_BothConfirmationsComplete ==
    [][\A t \in TaskIds :
         (/\ t \in DOMAIN cleanup_tasks
          /\ cleanup_tasks[t].status = "pending"
          /\ ~(cleanup_tasks[t].orchestrator_deleted /\ cleanup_tasks[t].daemon_deleted)
          /\ mark_cleanup_orchestrator_done(t) \/ mark_cleanup_daemon_done(t)) =>
            cleanup_tasks'[t].status =
                IF cleanup_tasks'[t].orchestrator_deleted /\ cleanup_tasks'[t].daemon_deleted
                  THEN "completed" ELSE "pending"]_vars

(***************************************************************************)
(* C6: a cleanup or retransfer task is completed if and only if both its   *)
(* confirmation flags are true.                                            *)
(***************************************************************************)
C6_CompletedIffBothFlags ==
    /\ \A t \in DOMAIN cleanup_tasks :
          (cleanup_tasks[t].status = "completed") <=>
             (cleanup_tasks[t].orchestrator_deleted /\ cleanup_tasks[t].daemon_deleted)
    /\ \A t \in DOMAIN retransfer_tasks :
          (retransfer_tasks[t].status = "completed") <=>
             (retransfer_tasks[t].orchestrator_deleted /\ retransfer_tasks[t].daemon_acknowledged)

(***************************************************************************)
(* C7: a streamed upload from a registered site and an untracked (site,    *)
(* path) pair, whose body has the declared size and hash, succeeds and     *)
(* leaves exactly one new record in state detected with that size, hash,   *)
(* site and path, a ledger entry for the hash and one audit entry with new *)
(* state detected.                                                         *)
(***************************************************************************)
Tracked(site, path) ==
    \E f \in DOMAIN files :
        Lower(files[f].source_site) = Lower(site) /\ files[f].source_path = path

C7_MatchingStreamedUploadRegisters ==
    [][\A s \in SiteNames, p \in Paths, n \in Sizes, h \in Hashes :
         (/\ upload_file_stream(s, p, n, h, n, h)
          /\ Lower(s) \in site_names
          /\ ~Tracked(s, p)) =>
            /\ last'.status = 200
            /\ \E f \in DOMAIN files' \ DOMAIN files :
                  /\ DOMAIN files' = DOMAIN files \cup {f}
                  /\ files'[f].state = "detected"
                  /\ files'[f].file_size = n
                  /\ files'[f].sha256_hash = h
                  /\ Lower(files'[f].source_site) = Lower(s)
                  /\ files'[f].source_path = p
                  /\ audit_logs'[f] = <<[previous_state |-> None, new_state |-> "detected",
                                         performed_by |-> 0]>>
            /\ h \in DOMAIN file_history']_vars

(***************************************************************************)
(* C8: a streamed upload whose body differs in size or in hash from what   *)
(* the headers declare is answered with the mismatch error (400) and       *)
(* leaves no record, no ledger entry and no audit entry.                   *)
(***************************************************************************)
C8_MismatchingStreamedUploadRefused ==
    [][\A s \in SiteNames, p \in Paths, n \in Sizes, h \in Hashes,
          bn \in Sizes, bh \in Hashes :
         (/\ upload_file_stream(s, p, n, h, bn, bh)
          /\ Lower(s) \in site_names
          /\ ~Tracked(s, p)
          /\ bn # n \/ bh # h) =>
            /\ last' = [op |-> "upload-stream", fid |-> 0, status |-> 400]
            /\ UNCHANGED <<files, file_history, audit_logs>>]_vars

(***************************************************************************)
(* C9: no two file records with the same content hash are ever created.    *)
(***************************************************************************)
C9_NoTwoRecordsWithSameHash ==
    \A f, g \in DOMAIN files :
        f # g => files[f].sha256_hash # files[g].sha256_hash

(***************************************************************************)
(* C10: once seen(h) is true it stays true in every step that is not the   *)
(* administrative override for h, also when the record is deleted.         *)
(***************************************************************************)
C10_SeenIsPermanent ==
    [][\A h \in Hashes :
         (file_exists_in_history(h) /\ ~delete_file_from_history(h)) =>
            file_exists_in_history(h)']_vars

(***************************************************************************)
(* C11: record is idempotent.  After every step the ledger holds exactly   *)
(* one entry for each hash it knows, every call of record returns (none    *)
(* ends in an error), and the entry of a hash is never overwritten: it     *)
(* keeps the filename, site, size and first-seen time it was created with. *)
(***************************************************************************)
C11_RecordIsIdempotent ==
    [][/\ \A h \in DOMAIN file_history' : Len(file_history'[h]) = 1
       /\ last'.op = "record" => last'.status = 200
       /\ \A h \in DOMAIN file_history \cap DOMAIN file_history' :
             file_history'[h][1] = file_history[h][1]]_vars

(***************************************************************************)
(* C12: a streamed or buffered upload from a registered site whose (site,  *)
(* path) pair is already claimed by a file record is answered 409 and      *)
(* creates no file record, ledger entry, audit entry or upload session.    *)
(***************************************************************************)
C12_Conflict(handler) ==
    /\ last' = [op |-> handler, fid |-> 0, status |-> 409]
    /\ UNCHANGED <<files, file_history, audit_logs, active_uploads, streamVars>>

C12_TrackedPairIsConflict ==
    [][\A s \in SiteNames, p \in Paths :
         (Lower(s) \in site_names /\ Tracked(s, p)) =>
            /\ \A n \in Sizes, h \in Hashes, bn \in Sizes, bh \in Hashes :
                  upload_file_stream(s, p, n, h, bn, bh) => C12_Conflict("upload-stream")
            /\ \A bn \in Sizes, bh \in Hashes :
                  upload_file(s, p, bn, bh) => C12_Conflict("upload")]_vars

C18_OnlyDaemonRegistersSite ==
    [][\A name \in SiteNames, is_daemon \in BOOLEAN :
         (site_heartbeat(name, is_daemon) /\ ~\E s \in sites : Lower(s) = Lower(name)) =>
            IF is_daemon
              THEN sites' = sites \cup {name} /\ last'.status = 200
              ELSE sites' = sites /\ last' = [op |-> "heartbeat", fid |-> 0, status |-> 404]]_vars

\* C18's case: a session user's heartbeat for an unknown site was answered 404
\* and no site exists.
C18_Witness ==
    /\ last = [op |-> "heartbeat", fid |-> 0, status |-> 404]
    /\ sites = {}

(***************************************************************************)
(* C19: every successful transition appends exactly one audit entry for    *)
(* its file; the entry's previous state is the state the file had before   *)
(* the transition, its new state is the state the transition leads to, and *)
(* it names the actor.                                                     *)
(***************************************************************************)
TableTarget(verb) ==
    CASE verb = "validate"          -> "validated"
      [] verb = "queue"             -> "queued"
      [] verb = "start-transfer"    -> "transferring"
      [] verb = "complete-transfer" -> "transferred"
      [] verb = "assign"            -> "colorist_assigned"
      [] verb = "start"             -> "in_progress"
      [] verb = "deliver"           -> "delivered_to_mam"
      [] verb = "archive"           -> "archived"
      [] verb = "reject"            -> "rejected"

C19_OneFaithfulAuditEntry ==
    [][\A req \in Running :
         (req.op \in Verbs /\ create_audit_log(req) /\ last'.status = 200) =>
            LET before == audit_logs[req.fid]
                after == audit_logs'[req.fid]
            IN /\ Len(after) = Len(before) + 1
               /\ SubSeq(after, 1, Len(before)) = before
               /\ after[Len(after)].previous_state = req.prev
               /\ after[Len(after)].new_state = TableTarget(req.op)
               /\ after[Len(after)].performed_by # 0]_vars

(***************************************************************************)
(* C20: of the requests for a transition that run concurrently on one      *)
(* file, at most one succeeds and one audit entry results.  A file enters  *)
(* validated only from detected and never returns to detected, so its      *)
(* audit trail holds at most one entry of a validate.                      *)
(***************************************************************************)
C20_AtMostOneValidateSucceeds ==
    \A f \in FileIds :
        Cardinality({i \in DOMAIN audit_logs[f] :
                        audit_logs[f][i].new_state = "validated"}) <= 1

(***************************************************************************)
(* C14: the stability check of the daemon.                                 *)
(***************************************************************************)
\* The step puts file p on stable_queue: the check reported p stable.
ReportedStable(p) ==
    \E i \in (Len(stable_queue) + 1)..Len(stable_queue') : stable_queue'[i] = p

\* The file p differs in size or modification time from its last observation.
ObservedChange(p) ==
    /\ p \in DOMAIN disk
    /\ p \in DOMAIN writing_files
    /\ \/ disk[p].size # writing_files[p].last_size
       \/ disk[p].mtime # writing_files[p].last_mtime

\* C14: a file is reported stable only on a tick where its size and modification
\* time equal the previous observation and have done so for at least
\* FILE_STABILITY_SECONDS since the last observed change or the first sight (so
\* the file was not modified within the window); a tick that observes a change,
\* and the first sight of a file, set stable-since to the time of the tick and
\* do not report the file stable.
C14_StableOnlyAfterQuietWindow ==
    [][\A p \in Paths :
          /\ ReportedStable(p) =>
                /\ p \in DOMAIN disk
                /\ p \in DOMAIN writing_files
                /\ ~ObservedChange(p)
                /\ now - writing_files[p].stable_since >= FILE_STABILITY_SECONDS
                /\ now - disk[p].mtime >= FILE_STABILITY_SECONDS
          /\ (ObservedChange(p) /\ check_writing_files) =>
                /\ ~ReportedStable(p)
                /\ p \in DOMAIN writing_files'
                /\ writing_files'[p] = [last_size |-> disk[p].size,
                                        last_mtime |-> disk[p].mtime,
                                        stable_since |-> now]
          /\ (p \notin DOMAIN writing_files /\ p \in DOMAIN writing_files') =>
                /\ ~ReportedStable(p)
                /\ writing_files'[p].stable_since = now
      ]_vars

\* A file that grew after the clock started is on stable_queue.
C14_Witness ==
    \E i \in DOMAIN stable_queue :
        /\ stable_queue[i] \in DOMAIN disk
        /\ disk[stable_queue[i]].size > 1
        /\ disk[stable_queue[i]].mtime > 0

(***************************************************************************)
(* C15: the upload path of the daemon.                                     *)
(***************************************************************************)
\* C15: at most one call of upload_file is in progress at any time, and it is the
\* one for uploading_file; a file that became stable meanwhile is on stable_queue.
C15_OneUploadAtATime ==
    /\ Cardinality(DOMAIN in_upload) <= 1
    /\ \A p \in DOMAIN in_upload : uploading_file = p

\* One file is in the upload path while another waits on stable_queue.
C15_Witness ==
    /\ in_upload # <<>>
    /\ stable_queue # <<>>
    /\ \A i \in DOMAIN stable_queue : stable_queue[i] \notin DOMAIN in_upload

(***************************************************************************)
(* C16: the checks of the daemon before it sends bytes.                    *)
(***************************************************************************)
\* C16: when the daemon asks the center about a file whose hash the center has
\* seen or whose (site, path) the center tracks, the upload ends there: the file
\* does not go on to the upload request.
C16_KnownFileIsNotUploaded ==
    [][\A p \in Paths :
          ( /\ p \in DOMAIN in_upload
            /\ in_upload[p].phase = "checking"
            /\ \/ file_exists_in_history(in_upload[p].sha256_hash)
               \/ Tracked(DaemonSite, p)
            /\ check_file_exists_on_server(p) )
          => p \notin DOMAIN in_upload'
      ]_vars

(***************************************************************************)
(* C17: heartbeats while the upload path is busy.                          *)
(***************************************************************************)
\* C17: in every state where a file is in the upload path (being hashed, checked
\* with the center or streamed) the heartbeat step of the daemon can be taken.
C17_HeartbeatNeverBlocked ==
    in_upload # <<>> => ENABLED send_heartbeat

(***************************************************************************)
(* C21: a tracked file found missing.                                      *)
(***************************************************************************)
\* C21: a turn of check_writing_files that finds a tracked file missing removes
\* the file from writing_files (so that no later tick can report the path stable
\* from that record).
C21_MissingFileIsDropped ==
    [][\A p \in Paths :
          (p \in DOMAIN writing_files /\ p \notin DOMAIN disk /\ check_writing_files)
          => p \notin DOMAIN writing_files'
      ]_vars

(***************************************************************************)
(* C22: locked = false if and only if the state is detected.               *)
(***************************************************************************)
\* C22: in every reachable state a file record is unlocked exactly when its state
\* is detected (so only a detected file can be deleted).
C22_UnlockedIffDetected ==
    \A f \in DOMAIN files : (files[f].locked = FALSE) <=> (files[f].state = "detected")

(***************************************************************************)
(* C23: the answers of the file verbs to a missing file and to a violated  *)
(* precondition.                                                           *)
(***************************************************************************)
C23_Untouched == UNCHANGED <<files, audit_logs, transfer_jobs, file_history, reqs>>

\* C23: a transition verb or delete on a file id that does not exist is answered
\* 404; on a file that exists in a state (for delete: locked) that violates the
\* precondition of the verb it is answered 400; both leave the registry as it was.
C23_MissingIs404RefusedIs400 ==
    [][\A f \in FileIds :
         /\ \A verb \in Verbs :
               (last'.op \in {verb, "none"} /\ ~Exists(f)
                  /\ \E u \in {0} \cup UserIds, why \in {None, "corrupt"} :
                         BeginTransition(verb, f, u, why))
               => (last' = [op |-> verb, fid |-> f, status |-> 404] /\ C23_Untouched)
         /\ \A verb \in Verbs \ {"reject"} :
               (last'.op \in {verb, "none"} /\ Exists(f)
                  /\ files[f].state \notin TablePrecondition(verb)
                  /\ \E u \in {0} \cup UserIds : BeginTransition(verb, f, u, None))
               => (last' = [op |-> verb, fid |-> f, status |-> 400] /\ C23_Untouched)
         /\ (last'.op \in {"delete", "none"} /\ ~Exists(f) /\ delete_file(f))
               => (last' = [op |-> "delete", fid |-> f, status |-> 404] /\ C23_Untouched)
         /\ (last'.op \in {"delete", "none"} /\ Exists(f) /\ files[f].locked /\ delete_file(f))
               => (last' = [op |-> "delete", fid |-> f, status |-> 400] /\ C23_Untouched)
      ]_vars

(***************************************************************************)
(* C27: the effect of a delete.                                            *)
(***************************************************************************)
\* No request that registers or deletes file f is in flight.
C27_Settled(f) ==
    \A q \in Running : q.fid = f => q.op \notin {"create", "delete"}

\* C27: the step that ends a delete with success leaves no record, no audit entry
\* and no transfer job of the file and changes nothing else; and a delete that
\* failed removed nothing: a file that exists, with no registration or delete of
\* it in flight, has the audit entry of its creation.
C27_DeleteRemovesAllOrNothing ==
    [][/\ \A req \in Running :
             (req.op = "delete" /\ req.pc = "del_file" /\ last'.status = 200
                /\ delete_file_row(req))
             => /\ ~Exists(req.fid)'
                /\ audit_logs'[req.fid] = <<>>
                /\ req.fid \notin transfer_jobs'
                /\ \A g \in DOMAIN files \ {req.fid} :
                      Exists(g)' /\ files'[g] = files[g] /\ audit_logs'[g] = audit_logs[g]
                /\ file_history' = file_history
       /\ \A f \in DOMAIN files' :
             C27_Settled(f)' =>
                \E i \in DOMAIN audit_logs'[f] : audit_logs'[f][i].new_state = "detected"
      ]_vars

(***************************************************************************)
(* C28: archived and rejected are terminal.                                *)
(***************************************************************************)
Terminal == {"archived", "rejected"}

\* C28: no step changes the state of a file that is archived or rejected, and a
\* reject request on such a file is not carried out.
C28_TerminalStatesAreFinal ==
    [][\A f \in FileIds :
         /\ (Exists(f) /\ Exists(f)' /\ files[f].state \in Terminal)
               => files'[f].state = files[f].state
         /\ (last'.op \in {"reject", "none"} /\ Exists(f) /\ files[f].state \in Terminal
                /\ reject_file(f, "corrupt"))
               => (last'.status \in {400, 409} /\ UNCHANGED reqs)
      ]_vars

(***************************************************************************)
(* C24: an upload whose hash the center has seen.                          *)
(***************************************************************************)
\* C24: a streamed upload from a registered site and an untracked (site, path)
\* pair, whose body has the declared size and hash, is accepted (answered 200,
\* one new record in state detected) also when the center has seen its hash.
C24_SeenHashIsStillAccepted ==
    [][\A s \in SiteNames, p \in Paths, n \in Sizes, h \in Hashes :
         (/\ last'.op = "upload-stream"
          /\ Lower(s) \in site_names
          /\ ~Tracked(s, p)
          /\ file_exists_in_history(h)
          /\ upload_file_stream(s, p, n, h, n, h)) =>
            /\ last'.status = 200
            /\ \E f \in DOMAIN files' \ DOMAIN files :
                  /\ files'[f].state = "detected"
                  /\ files'[f].sha256_hash = h
                  /\ files'[f].source_path = p]_vars

(***************************************************************************)
(* C26: site names are unique ignoring letter case.                        *)
(***************************************************************************)
\* C26: in every reachable state no two sites have names that are equal ignoring
\* letter case.
C26_SiteNamesUniqueIgnoringCase ==
    \A a, b \in sites : Lower(a) = Lower(b) => a = b

\* C25: with --metadata-only (upload_files false) the daemon sends no
\* upload-stream request: no step of a session started with --metadata-only is
\* the POST /api/files/upload-stream of upload_file.
C25_MetadataOnlyNeverStreams ==
    [][\A p \in Paths : upload_files = FALSE => ~stream_file(p)]_vars

\* The path p has been handled in this session: the detector has seen it, and it
\* is neither waiting on pending_queue nor tracked in writing_files.
C30_Handled(p) ==
    /\ p \in seen_files
    /\ \A i \in 1..Len(pending_queue) : pending_queue[i] # p
    /\ p \notin DOMAIN writing_files

\* The number of times p is on the queue q.
C30_Count(p, q) == Cardinality({i \in 1..Len(q) : q[i] = p})

\* C30: within one session of the daemon a path is put on stable_queue at most
\* once, whatever the watcher events, the initial scan and the turns of the loops:
\* the step that queues the path queues it once and leaves it handled, and a
\* handled path stays handled and is not queued again until the daemon is started
\* again.
C30_QueuedAtMostOncePerSession ==
    [][\A p \in Paths :
          /\ ReportedStable(p) =>
                /\ C30_Handled(p)'
                /\ C30_Count(p, stable_queue') = C30_Count(p, stable_queue) + 1
          /\ (C30_Handled(p) /\ run_pc' = run_pc) =>
                /\ C30_Handled(p)'
                /\ ~ReportedStable(p)
      ]_vars

\* In a session started with --metadata-only the loops run, and a path has been
\* put on stable_queue once and is handled.
C30_Witness ==
    \E p \in Paths :
        /\ upload_files = FALSE
        /\ run_pc = "gather"
        /\ C30_Handled(p)
        /\ C30_Count(p, stable_queue) = 1

\* The roles assign_file accepts when it picks a user itself (main.py:581).
C31_Eligible == {"colorist", "engineer", "admin"}

\* The assign request that a step has just begun, if any.
C31_Begun(f) == {req \in BagToSet(reqs') : req.op = "assign" /\ req.fid = f /\ req.pc = "update"}

\* C31: assign without an explicit user picks a colorist whenever there is one,
\* otherwise a user with an eligible role (colorist, engineer, admin), and with
\* no eligible user it answers an error and changes nothing; after every assign
\* answered 200, with or without an explicit user, the owner of the file is set
\* and is a user with an eligible role.
C31_AssignPicksEligibleOwner ==
    [][\A f \in TrackedIds :
          /\ (last'.op \in {"assign", "none"} /\ Exists(f)
                /\ files[f].state \in Precondition("assign") /\ assign_file(f, 0)) =>
                IF \E u \in DOMAIN users : users[u] = "colorist"
                  THEN \E req \in C31_Begun(f) : users[req.user_id] = "colorist"
                ELSE IF \E u \in DOMAIN users : users[u] \in C31_Eligible
                  THEN \E req \in C31_Begun(f) : users[req.user_id] \in C31_Eligible
                ELSE last'.status = 400 /\ UNCHANGED <<files, audit_logs, users, reqs>>
          /\ (last' = Response("assign", f, 200, "ok") /\ last' # last /\ Exists(f)') =>
                /\ files'[f].assigned_to \in DOMAIN users
                /\ users[files'[f].assigned_to] \in C31_Eligible
      ]_vars

\* min(100, floor(100 * received / expected)) for expected > 0, else 0.
C32_Percent(received, expected) ==
    IF expected > 0
      THEN IF (100 * received) \div expected < 100 THEN (100 * received) \div expected ELSE 100
      ELSE 0

C33_CheckFailed == last.op = "check" /\ last.status # 200

\* C33: a heartbeat or an existence check that fails (an exception of the request
\* or an answer other than 200) does not stop the daemon.  In every state the
\* daemon reaches, with such failures among its steps, its loops run: the next
\* heartbeat can be sent as soon as the event loop is free, an upload whose check
\* is over goes on to its request, and the upload loop takes the next file from
\* stable_queue once no upload is running.
C33_FailedCallDoesNotStopDaemon ==
    /\ run_pc = "gather"
    /\ ~Blocked => ENABLED send_heartbeat
    /\ \A p \in DOMAIN in_upload :
          (~Blocked /\ in_upload[p].phase = "streaming") => ENABLED stream_file(p)
    /\ (~Blocked /\ uploading_file = None /\ stable_queue # <<>>) =>
          ENABLED upload_stable_files

\* An existence check has just failed with an exception of the request: the
\* upload is at its request, and the next file waits on stable_queue.
C33_Witness ==
    /\ C33_CheckFailed
    /\ last.status = 0
    /\ \E p \in DOMAIN in_upload : in_upload[p].phase = "streaming"
    /\ stable_queue # <<>>


\* The files of stable_queue keep their order: a step leaves the queue, or its
\* tail, in front of what it appends, and an upload starts only when none is
\* running, for the file at the head of the queue.
C34_UploadsInQueueOrder ==
    [][ /\ \E k \in 0..1 : \E more \in Orders(Paths) \cup {<<>>} \cup {<<p>> : p \in Paths} :
              /\ k <= Len(stable_queue)
              /\ stable_queue' = SubSeq(stable_queue, k + 1, Len(stable_queue)) \o more
        /\ (uploading_file' # None /\ uploading_file' # uploading_file) =>
              /\ uploading_file = None
              /\ stable_queue # <<>>
              /\ uploading_file' = Head(stable_queue)
              /\ stable_queue' = Tail(stable_queue) ]_vars

\* C34: while one file is uploading, detection and stability polling keep running:
\* a detected file waiting on pending_queue is taken into tracking, and the
\* tracked files are polled and the stable ones put on stable_queue, at every
\* moment of the upload; the files of stable_queue are uploaded after the
\* current one, in the order of the queue.
C34_PollingRunsDuringUpload ==
    uploading_file # None =>
        /\ pending_queue # <<>> => ENABLED process_pending_files
        /\ writing_files # <<>> => ENABLED check_writing_files


\* The supplied filename is empty, or holds a traversal sequence or a separator.
C35_Unsafe(filename) ==
    \/ filename = <<>>
    \/ \E i \in 1..Len(filename) : filename[i] \in {"..", "/", "\\"}

\* The step is the arrival of an upload request that supplies this filename.
C35_Supplies(filename) ==
    \E p \in Paths : upload_file_stream_begin("Tustin", p, filename, 1, "h1", 1, "h1")

C36_Committed(f) ==
    /\ Exists(f)
    /\ \A u \in DOMAIN streams : streams[u].fid # f

\* The stored file of the record f is what the record says it is: it is in the
\* directory of the site under the record's filename, with its size and hash.
C36_Intact(f) ==
    LET d == dest_path(files[f].source_site, files[f].filename)
    IN /\ d \in DOMAIN storage_dir
       /\ storage_dir[d].size = files[f].file_size
       /\ storage_dir[d].sha256_hash = files[f].sha256_hash

\* The uploads that take the step: the one that arrives, moves on or returns.
C36_Acting ==
    {u \in DOMAIN streams \cup DOMAIN streams' :
        \/ u \notin DOMAIN streams
        \/ u \notin DOMAIN streams'
        \/ streams[u] # streams'[u]}

C36_SourcePath(u) ==
    IF u \in DOMAIN streams THEN streams[u].source_path ELSE streams'[u].source_path

C37_ValidateSucceeded(f) ==
    /\ Exists(f)
    /\ files[f].locked
    /\ \A req \in Running : ~(req.op = "validate" /\ req.fid = f)

\* C37: whatever the interleaving of a delete request and a validate request on a
\* detected file, a file on which validate has reported success is not removed
\* from the registry afterwards, and no audit entry is kept for a file that is
\* no longer in the registry.
C37_DeleteAndValidateAreExclusive ==
    [][ \A f \in TrackedIds :
          /\ C37_ValidateSucceeded(f) => Exists(f)'
          /\ ~Exists(f)' => audit_logs'[f] = <<>> ]_vars


\* The daemon still has the file p before it: on one of its queues or in its
\* tracking table, from where it reaches upload_file.
C38_Waiting(p) ==
    \/ \E i \in 1..Len(pending_queue) : pending_queue[i] = p
    \/ p \in DOMAIN writing_files
    \/ \E i \in 1..Len(stable_queue) : stable_queue[i] = p

\* C38: a stable file that stays in the watched directory is in the end committed
\* at the center or recognised as known there: when its upload request ends with
\* a failure (no answer, or an answer that is neither a success nor 409) the
\* running daemon keeps the file for another attempt.
C38_FailedUploadIsAttemptedAgain ==
    [][ \A p \in Paths :
          ( /\ p \in DOMAIN in_upload
            /\ in_upload[p].phase = "streaming"
            /\ p \notin DOMAIN in_upload'
            /\ p \in DOMAIN disk
            /\ last'.status \notin {200, 201, 409} )
          => C38_Waiting(p)' ]_vars


\* The step ends the upload u with an error after its stream was received and
\* verified.
C39_EndsWithError(u) ==
    /\ u \in DOMAIN streams
    /\ streams[u].pc \in {"create_file", "history", "insert_history", "get_file", "audit"}
    /\ u \notin DOMAIN streams'
    /\ last'.op = "upload-stream"
    /\ last'.status >= 400

C40_OneRecordPerSourcePair ==
    \A f, g \in FileIds :
        ( /\ Exists(f)
          /\ Exists(g)
          /\ Lower(files[f].source_site) = Lower(files[g].source_site)
          /\ files[f].source_path = files[g].source_path )
        => f = g


\* The step ends the upload u while chunks are being read: the client has gone
\* away before the whole body was received.
C29_Interrupted(u) ==
    /\ u \in DOMAIN streams
    /\ streams[u].pc = "stream"
    /\ streams[u].file_size < streams[u].body_size
    /\ u \notin DOMAIN streams'
    /\ last'.status = 500

====
